---- MODULE Spec2Model ----
(***************************************************************************)
(* The privileged step pipelines of spfs-enter, spenv-enter and            *)
(* spenv-mount (under crates/spfs): argument parsing, the step loop of    *)
(* main,                                                                   *)
(* every step function, the forked mount child, and the parts of the       *)
(* kernel the steps act on (uids, capabilities, mount table, directories). *)
(*                                                                         *)
(* Strings are sequences of pieces (each piece a string), so that sprintf  *)
(* is a substitution into a format and strlen is a sum of piece lengths.   *)
(* SPFS_DEBUG / SPENV_DEBUG only guard printf calls and are not modelled.  *)
(***************************************************************************)
EXTENDS Integers, Sequences, FiniteSets, TLC

VARIABLES
    input,                  \* what the process was started with (never changes)
    SPFS_LOWERDIRS,         \* NULL or the joined -d string (SPENV_LOWERDIRS in spenv-enter)
    SPFS_REMOUNT_ONLY,
    SPFS_EDITABLE,
    SPFS_VIRTUALIZE_SHOTS,
    SPFS_MASKED_PATHS,
    original_uid,
    original_euid,
    procs,                  \* the process and the child it forks for mount
    newns,                  \* a new mount namespace has been entered
    mounted,                \* the paths that are mount points
    private,                \* the mounts whose propagation was made private
    dirs,                   \* the directories: path -> [exists, mode, owner]
    masked,                 \* the paths hidden from the overlay view
    mountLog,               \* the mount operations performed, in order
    allocs,                 \* every malloc of a buffer: [site, size, bytes written or read]
    execs,                  \* every execl/execv attempted, with the identity it ran under
    trace                   \* the steps executed, in order, with the process that ran them

vars == <<input, SPFS_LOWERDIRS, SPFS_REMOUNT_ONLY, SPFS_EDITABLE, SPFS_VIRTUALIZE_SHOTS,
          SPFS_MASKED_PATHS, original_uid, original_euid, procs, newns, mounted,
          private, dirs, masked, mountLog, allocs, execs, trace>>

(***************************************************************************)
(* Bounds                                                                  *)
(***************************************************************************)
MaxLayers == 2
MaxMasks == 2

(***************************************************************************)
(* Program constants                                                       *)
(***************************************************************************)
NULL == "NULL"
UNSET_UID == -1
ROOT == 0
S_IRWXUGO == 511
EXIT_STATUS_MOD == 256
WAIT_EXIT_SHIFT == 256

SPFS_ENTER == "spfs-enter"
SPENV_ENTER == "spenv-enter"
SPENV_MOUNT == "spenv-mount"
SPENV_REMOUNT == "spenv-remount"

SPFS_DIR(prog) == IF prog = SPFS_ENTER THEN "/spfs" ELSE "/env"
SHOTS_DIR == "/shots"
RUNTIME_DIR(prog) == IF prog = SPFS_ENTER THEN "/tmp/spfs-runtime" ELSE "/tmp/spenv-runtime"
RUNTIME_UPPER_DIR(prog) == RUNTIME_DIR(prog) \o "/upper"
RUNTIME_LOWER_DIR(prog) == RUNTIME_DIR(prog) \o "/lower"
RUNTIME_WORK_DIR(prog) == RUNTIME_DIR(prog) \o "/work"


(***************************************************************************)
(* Strings: a string is a sequence of pieces.                              *)
(***************************************************************************)
Str(s) == <<s>>
EMPTY == <<>>

RECURSIVE strlen(_)
strlen(s) == IF s = <<>> THEN 0 ELSE Len(Head(s)) + strlen(Tail(s))

\* sprintf(buf, fmt, args): every "%s" of fmt replaced by the next argument.
RECURSIVE sprintf(_, _)
sprintf(fmt, args) ==
    IF fmt = <<>> THEN <<>>
    ELSE IF Head(fmt) = "%s"
         THEN Head(args) \o sprintf(Tail(fmt), Tail(args))
         ELSE <<Head(fmt)>> \o sprintf(Tail(fmt), args)

(***************************************************************************)
(* The kernel: user ids and capabilities of a process p                    *)
(* (ruid, euid, suid; capP / capE = permitted / effective set non-empty).  *)
(***************************************************************************)
Uids(p) == {p.ruid, p.euid, p.suid}

\* cap_emulate_setxuid: what a uid change does to the capability sets
CapAdjust(old, new) ==
    LET c1 == IF ROOT \in Uids(old) /\ ROOT \notin Uids(new)
              THEN [new EXCEPT !.capP = FALSE, !.capE = FALSE] ELSE new
        c2 == IF old.euid = ROOT /\ new.euid # ROOT
              THEN [c1 EXCEPT !.capE = FALSE] ELSE c1
    IN  IF old.euid # ROOT /\ new.euid = ROOT
        THEN [c2 EXCEPT !.capE = c2.capP] ELSE c2

\* seteuid(uid): [ok, p]
seteuid(p, uid) ==
    IF p.capE \/ uid \in Uids(p)
    THEN [ok |-> TRUE, p |-> CapAdjust(p, [p EXCEPT !.euid = uid])]
    ELSE [ok |-> FALSE, p |-> p]

\* setuid(uid): with CAP_SETUID all three ids change, without it only the effective one
setuid(p, uid) ==
    IF p.capE
    THEN [ok |-> TRUE,
          p |-> CapAdjust(p, [p EXCEPT !.ruid = uid, !.euid = uid, !.suid = uid])]
    ELSE IF uid \in {p.ruid, p.suid}
         THEN [ok |-> TRUE, p |-> CapAdjust(p, [p EXCEPT !.euid = uid])]
         ELSE [ok |-> FALSE, p |-> p]

\* cap_clear + cap_set_proc: the process capability set emptied
cap_set_proc_empty(p) == [p EXCEPT !.capP = FALSE, !.capE = FALSE]

\* execve: a process running as root regains the capabilities of root
Privileged(p) == p.capE

(***************************************************************************)
(* The filesystem: directories and mount points                            *)
(***************************************************************************)
ABSENT == [exists |-> FALSE, mode |-> 0, owner |-> 0]

\* a path as the kernel resolves it: "tmp" (steps.c:61) and its dirname "." are
\* relative to the working directory
Resolve(path) ==
    IF path = "tmp"
    THEN (IF input.cwd = "/" THEN "/tmp" ELSE input.cwd \o "/tmp")
    ELSE IF path = "." THEN input.cwd
    ELSE path

Paths(prog) ==
    {"/", "/tmp", Resolve("tmp"), SPFS_DIR(prog), SHOTS_DIR, RUNTIME_DIR(prog),
     RUNTIME_LOWER_DIR(prog), RUNTIME_UPPER_DIR(prog), RUNTIME_WORK_DIR(prog)}

\* dirname(3) of the paths the programs name
dirname(path) ==
    CASE path = "tmp" -> "."
      [] path = "." -> "."
      [] path = "/home/user/tmp" -> "/home/user"
      [] path = "/home/user" -> "/home"
      [] path \in {"/tmp/spfs-runtime", "/tmp/spenv-runtime"} -> "/tmp"
      [] path \in {"/tmp/spfs-runtime/upper", "/tmp/spfs-runtime/lower",
                   "/tmp/spfs-runtime/work"} -> "/tmp/spfs-runtime"
      [] path \in {"/tmp/spenv-runtime/upper", "/tmp/spenv-runtime/lower",
                   "/tmp/spenv-runtime/work"} -> "/tmp/spenv-runtime"
      [] OTHER -> "/"

\* the device a resolved path lies on, named by the mount point of that filesystem
RECURSIVE st_dev(_, _)
st_dev(q, fsMounted) ==
    IF q = "/" \/ q \in fsMounted THEN q ELSE st_dev(dirname(q), fsMounted)

\* stat(path, &st): [ret, st_dev]; fails for a missing path, or for another reason
\* (EACCES, ELOOP, ENOMEM) when fail is set
stat(path, fsDirs, fsMounted, fail) ==
    LET q == Resolve(path)
    IN  IF fail \/ (q \in DOMAIN fsDirs /\ ~fsDirs[q].exists)
        THEN [ret |-> -1, st_dev |-> "none"]
        ELSE [ret |-> 0, st_dev |-> st_dev(q, fsMounted)]

\* the comparison of the device ids turned round: equal ids reported as mounted
is_mounted_Inverted(target, fsDirs, fsMounted) ==
    LET st_parent == stat(dirname(target), fsDirs, fsMounted, input.statfail = "parent")
        st_target == stat(target, fsDirs, fsMounted, input.statfail = "target")
    IN  IF st_parent.ret = -1 THEN -1
        ELSE IF st_target.ret = -1 THEN -1
        ELSE IF st_target.st_dev = st_parent.st_dev THEN 1 ELSE 0

\* a failed stat of the target taken for "not mounted"
is_mounted_ErrorAsFalse(target, fsDirs, fsMounted) ==
    LET st_parent == stat(dirname(target), fsDirs, fsMounted, input.statfail = "parent")
        st_target == stat(target, fsDirs, fsMounted, input.statfail = "target")
    IN  IF st_parent.ret = -1 THEN -1
        ELSE IF st_target.ret = -1 THEN 0
        ELSE IF st_target.st_dev # st_parent.st_dev THEN 1 ELSE 0

\* is_mounted(target): -1 when the stat of the parent or of the target fails, else
\* whether their device ids differ
is_mounted(target, fsDirs, fsMounted) ==
    LET st_parent == stat(dirname(target), fsDirs, fsMounted, input.statfail = "parent")
        st_target == stat(target, fsDirs, fsMounted, input.statfail = "target")
    IN  IF st_parent.ret = -1 THEN -1
        ELSE IF st_target.ret = -1 THEN -1
        ELSE IF st_target.st_dev # st_parent.st_dev THEN 1 ELSE 0

\* a new entry can be made in directory d: search and write permission, or privilege
CanWrite(p, d) == d.exists /\ (p.capE \/ d.owner = p.euid \/ d.mode \in {S_IRWXUGO, 1023})

\* mkdir(path, mode): [ret, eexist, dirs]
mkdir(p, path, mode, fsDirs, fail) ==
    IF fsDirs[path].exists THEN [ret |-> -1, eexist |-> TRUE, dirs |-> fsDirs]
    ELSE IF fail \/ ~CanWrite(p, fsDirs[dirname(path)])
    THEN [ret |-> -1, eexist |-> FALSE, dirs |-> fsDirs]
    ELSE [ret |-> 0, eexist |-> FALSE,
          dirs |-> [fsDirs EXCEPT ![path] =
                       [exists |-> TRUE, mode |-> mode - input.umask, owner |-> p.euid]]]

\* lchown(path, owner, -1): needs CAP_CHOWN unless nothing changes for the owner
lchown(p, path, owner, fsDirs, fail) ==
    IF ~fail /\ fsDirs[path].exists
       /\ (p.capE \/ (fsDirs[path].owner = p.euid /\ owner = p.euid))
    THEN [ret |-> 0, dirs |-> [fsDirs EXCEPT ![path].owner = owner]]
    ELSE [ret |-> -1, dirs |-> fsDirs]

\* chmod(path, mode): needs CAP_FOWNER unless the caller owns the directory
chmod(p, path, mode, fsDirs, fail) ==
    IF ~fail /\ fsDirs[path].exists /\ (p.capE \/ fsDirs[path].owner = p.euid)
    THEN [ret |-> 0, dirs |-> [fsDirs EXCEPT ![path].mode = mode]]
    ELSE [ret |-> -1, dirs |-> fsDirs]

FailPoints == {"none", "mkdir", "lchown", "chmod"}

\* mkdir_permissive without the test for EEXIST: an existing directory is an error
spfs_mkdir_permissive_NoEexist(p, path, fsDirs, fail) ==
    LET a == mkdir(p, path, S_IRWXUGO, fsDirs, fail = "mkdir")
        b == lchown(p, path, p.ruid, a.dirs, fail = "lchown")
        c == chmod(p, path, S_IRWXUGO, b.dirs, fail = "chmod")
    IN  IF a.ret # 0 THEN [ret |-> -1, dirs |-> a.dirs]
        ELSE IF b.ret # 0 THEN [ret |-> -1, dirs |-> b.dirs]
        ELSE IF c.ret # 0 THEN [ret |-> -1, dirs |-> c.dirs]
        ELSE [ret |-> 0, dirs |-> c.dirs]

\* spfs-enter/steps.c mkdir_permissive: [ret, dirs]
spfs_mkdir_permissive(p, path, fsDirs, fail) ==
    LET a == mkdir(p, path, S_IRWXUGO, fsDirs, fail = "mkdir")
        b == lchown(p, path, p.ruid, a.dirs, fail = "lchown")
        c == chmod(p, path, S_IRWXUGO, b.dirs, fail = "chmod")
    IN  IF a.ret # 0 /\ ~a.eexist THEN [ret |-> -1, dirs |-> a.dirs]
        ELSE IF b.ret # 0 THEN [ret |-> -1, dirs |-> b.dirs]
        ELSE IF c.ret # 0 THEN [ret |-> -1, dirs |-> c.dirs]
        ELSE [ret |-> 0, dirs |-> c.dirs]

\* spenv-enter/steps.c mkdir_permissive: [ret, dirs]
spenv_mkdir_permissive(p, path, fsDirs, fail) ==
    LET a == mkdir(p, path, S_IRWXUGO, fsDirs, fail = "mkdir")
        c == chmod(p, path, S_IRWXUGO, a.dirs, fail = "chmod")
    IN  IF a.ret = -1
        THEN (IF a.eexist THEN [ret |-> 0, dirs |-> a.dirs]
              ELSE [ret |-> -1, dirs |-> a.dirs])
        ELSE IF c.ret = -1 THEN [ret |-> -1, dirs |-> c.dirs]
        ELSE [ret |-> 0, dirs |-> c.dirs]

mkdir_permissive(prog, p, path, fsDirs, fail) ==
    IF prog = SPFS_ENTER THEN spfs_mkdir_permissive(p, path, fsDirs, fail)
    ELSE spenv_mkdir_permissive(p, path, fsDirs, fail)

\* a tmpfs mounted at dir: what was below it is hidden, the new root belongs to root
MountTmpfs(dir, fsDirs) ==
    [q \in DOMAIN fsDirs |->
        IF q = dir THEN [exists |-> TRUE, mode |-> 1023, owner |-> ROOT]
        ELSE IF q \in {dir \o "/upper", dir \o "/lower", dir \o "/work"} THEN ABSENT
        ELSE fsDirs[q]]

(***************************************************************************)
(* Argument parsing of spfs-enter (main.c:27-62) and the overlay options   *)
(***************************************************************************)
SIZEOF_PTR == 8

\* case 'd' with the arguments of sprintf exchanged: the new layer put in front
RECURSIVE JoinLowerdirs_Prepend(_, _)
JoinLowerdirs_Prepend(acc, d) ==
    IF d = <<>> THEN acc
    ELSE IF acc = NULL THEN JoinLowerdirs_Prepend(Str(Head(d)), Tail(d))
    ELSE JoinLowerdirs_Prepend(sprintf(<<"%s", ":", "%s">>, <<Str(Head(d)), acc>>), Tail(d))

\* case 'd': the first -d is kept as is, each later one is appended after a ':'
RECURSIVE JoinLowerdirs(_, _)
JoinLowerdirs(acc, d) ==
    IF d = <<>> THEN acc
    ELSE IF acc = NULL THEN JoinLowerdirs(Str(Head(d)), Tail(d))
    ELSE JoinLowerdirs(sprintf(<<"%s", ":", "%s">>, <<acc, Str(Head(d))>>), Tail(d))

\* the buffers case 'd' allocates: malloc(required_size + 2) and what sprintf writes
RECURSIVE JoinLowerdirsAllocs(_, _)
JoinLowerdirsAllocs(acc, d) ==
    IF d = <<>> THEN <<>>
    ELSE IF acc = NULL THEN JoinLowerdirsAllocs(Str(Head(d)), Tail(d))
    ELSE LET next == sprintf(<<"%s", ":", "%s">>, <<acc, Str(Head(d))>>)
         IN  <<[site |-> "main -d",
                size |-> strlen(acc) + strlen(Str(Head(d))) + 2,
                written |-> strlen(next) + 1]>>
             \o JoinLowerdirsAllocs(next, Tail(d))

\* the content of a slot of a malloc'ed block that nothing was stored in
UNINIT == "uninitialised"

\* case 'm' with the size of the copy taken from the old count: one pointer too few
RECURSIVE AddMasks_CopyOldCount(_, _)
AddMasks_CopyOldCount(paths, m) ==
    IF m = <<>> THEN paths
    ELSE LET count == Len(paths) + 1
             old_size == SIZEOF_PTR * (count - 1) - 1
             new_paths == [k \in 1..count |->
                              IF k = count THEN Head(m)
                              ELSE IF count > 1 /\ SIZEOF_PTR * k <= old_size THEN paths[k]
                              ELSE UNINIT]
         IN  AddMasks_CopyOldCount(new_paths, Tail(m))

\* case 'm': SPFS_MASKED_PATHS_COUNT++; a new block is allocated, old_size bytes of
\* the old one are copied into it (old_size is sizeof(char*) * count - 1: the
\* count - 1 pointers and 7 bytes of the slot after them), and optarg is stored in
\* slot count - 1. The array is the first count slots of the block
RECURSIVE AddMasks(_, _)
AddMasks(paths, m) ==
    IF m = <<>> THEN paths
    ELSE LET count == Len(paths) + 1
             old_size == SIZEOF_PTR * count - 1
             new_paths == [k \in 1..count |->
                              IF k = count THEN Head(m)
                              ELSE IF count > 1 /\ SIZEOF_PTR * k <= old_size THEN paths[k]
                              ELSE UNINIT]
         IN  AddMasks(new_paths, Tail(m))

\* the blocks case 'm' allocates: malloc(sizeof(char*) * new_size) with new_size
\* already in bytes, and the number of leading bytes of the block that are accessed:
\* the store of optarg ends at sizeof(char*) * count, the memcpy into the block at
\* old_size, and the memcpy of the next -m reads the block up to its own old_size
RECURSIVE AddMasksAllocs(_, _)
AddMasksAllocs(old_count, m) ==
    IF m = <<>> THEN <<>>
    ELSE LET count == old_count + 1
             old_size == SIZEOF_PTR * count - 1
             new_size == SIZEOF_PTR * count
             into == IF count > 1 THEN old_size ELSE 0
             from == IF Tail(m) # <<>> THEN SIZEOF_PTR * (count + 1) - 1 ELSE 0
             ends == {new_size, into, from}
         IN  <<[site |-> "main -m",
                size |-> SIZEOF_PTR * new_size,
                written |-> CHOOSE e \in ends : \A f \in ends : f <= e]>>
             \o AddMasksAllocs(count, Tail(m))

\* get_overlay_args with the early return for the read-only case lost
spfs_get_overlay_args_AlwaysEditable(lowerdirs, editable) ==
    LET format_str == <<"lowerdir=", RUNTIME_LOWER_DIR(SPFS_ENTER), "%s", "%s">>
        lowerdir_args == IF lowerdirs = NULL
                         THEN sprintf(format_str, <<EMPTY, EMPTY>>)
                         ELSE sprintf(format_str, <<Str(":"), lowerdirs>>)
        format2 == <<"%s", ",", "upperdir=", RUNTIME_UPPER_DIR(SPFS_ENTER),
                     ",", "workdir=", RUNTIME_WORK_DIR(SPFS_ENTER)>>
    IN  [args |-> sprintf(format2, <<lowerdir_args>>), allocs |-> <<>>]

\* spfs-enter/steps.c get_overlay_args: [args, allocs]
spfs_get_overlay_args(lowerdirs, editable) ==
    LET format_str == <<"lowerdir=", RUNTIME_LOWER_DIR(SPFS_ENTER), "%s", "%s">>
        size1 == IF lowerdirs = NULL THEN strlen(format_str)
                 ELSE strlen(format_str) + strlen(lowerdirs)
        lowerdir_args == IF lowerdirs = NULL
                         THEN sprintf(format_str, <<EMPTY, EMPTY>>)
                         ELSE sprintf(format_str, <<Str(":"), lowerdirs>>)
        a1 == [site |-> "lowerdir_args", size |-> size1,
               written |-> strlen(lowerdir_args) + 1]
        format2 == <<"%s", ",", "upperdir=", RUNTIME_UPPER_DIR(SPFS_ENTER),
                     ",", "workdir=", RUNTIME_WORK_DIR(SPFS_ENTER)>>
        editable_args == sprintf(format2, <<lowerdir_args>>)
        a2 == [site |-> "editable_args",
               size |-> strlen(lowerdir_args) + strlen(format2) + 1,
               written |-> strlen(editable_args) + 1]
    IN  IF ~editable THEN [args |-> lowerdir_args, allocs |-> <<a1>>]
        ELSE [args |-> editable_args, allocs |-> <<a1, a2>>]

\* spenv-enter/steps.c get_overlay_args: [args, allocs]
spenv_get_overlay_args(lowerdirs) ==
    LET format_str == <<"lowerdir=", RUNTIME_LOWER_DIR(SPENV_ENTER), "%s", "%s",
                        ",", "upperdir=", RUNTIME_UPPER_DIR(SPENV_ENTER),
                        ",", "workdir=", RUNTIME_WORK_DIR(SPENV_ENTER)>>
        separator == IF strlen(lowerdirs) = 0 THEN EMPTY ELSE Str(":")
        overlay_args == sprintf(format_str, <<separator, lowerdirs>>)
    IN  [args |-> overlay_args,
         allocs |-> <<[site |-> "overlay_args",
                       size |-> strlen(lowerdirs) + strlen(format_str) + 1,
                       written |-> strlen(overlay_args) + 1]>>]

get_overlay_args(prog, lowerdirs, editable) ==
    IF prog = SPFS_ENTER THEN spfs_get_overlay_args(lowerdirs, editable)
    ELSE spenv_get_overlay_args(lowerdirs)

(***************************************************************************)
(* The step arrays of main                                                 *)
(***************************************************************************)
remount_steps ==
    <<"become_root", "ensure_mounts_already_exist", "unmount_env", "setup_runtime",
      "unlock_runtime", "mount_env", "mask_files", "set_runtime_lock",
      "mount_shots_if_necessary", "become_original_user", "drop_all_capabilities">>

\* the enter array with the two privilege-dropping steps after run_command's slot swapped
enter_steps_DropFirst ==
    <<"become_root", "enter_mount_namespace", "privatize_existing_mounts",
      "ensure_mount_targets_exist", "mount_runtime", "setup_runtime", "mount_env",
      "mask_files", "set_runtime_lock", "mount_shots_if_necessary",
      "drop_all_capabilities", "become_original_user", "run_command">>

enter_steps ==
    <<"become_root", "enter_mount_namespace", "privatize_existing_mounts",
      "ensure_mount_targets_exist", "mount_runtime", "setup_runtime", "mount_env",
      "mask_files", "set_runtime_lock", "mount_shots_if_necessary",
      "become_original_user", "drop_all_capabilities", "run_command">>

spenv_steps ==
    <<"parse_args", "enter_mount_namespace", "privatize_existing_mounts",
      "ensure_mount_targets_exist", "ensure_mounts_do_not_exist", "become_root",
      "setup_runtime", "mount_env", "mount_shots_if_necessary",
      "become_original_user", "drop_all_capabilities", "run_command">>

\* the selection with the -r test lost: the enter array in both modes
steps_AlwaysEnter ==
    IF input.prog = SPENV_ENTER THEN spenv_steps ELSE enter_steps

\* steps = SPFS_REMOUNT_ONLY ? remount_steps : enter_steps (main.c:120-127)
steps ==
    IF input.prog = SPENV_ENTER THEN spenv_steps
    ELSE IF SPFS_REMOUNT_ONLY THEN remount_steps
    ELSE enter_steps

\* the exit status of a process whose main returned r
ExitStatus(r) == r % EXIT_STATUS_MOD

\* the value a function yields when control reaches its closing brace without a
\* return statement: any int; zero and nonzero are told apart by the caller
Indeterminate == {0, 1}

(***************************************************************************)
(* The inputs: command line, invoking identity, filesystem at start        *)
(***************************************************************************)
Layers == {"/a", "/b"}
MaskPaths == {"/etc/secret", "/etc/hidden"}
SeqsUpTo(S, n) == UNION {[1..k -> S] : k \in 0..n}
LayerLists == SeqsUpTo(Layers, MaxLayers)
MaskLists == SeqsUpTo(MaskPaths, MaxMasks)

\* the elements of L with a ':' between neighbours, as a caller writes LOWERDIR[:LOWERDIR...]
RECURSIVE JoinColon(_)
JoinColon(L) ==
    IF L = <<>> THEN <<>>
    ELSE IF Len(L) = 1 THEN <<L[1]>>
    ELSE <<L[1], ":">> \o JoinColon(Tail(L))

\* the identities a process can start with (the saved uid equals the effective one).
\* The kernel runs with its default securebits and a full bounding set: a process
\* whose real or effective uid is 0 has a full permitted set, one whose effective
\* uid is 0 a full effective set; any other process has what the file grants
Identities ==
    {id \in [ruid : {ROOT, 1000}, euid : {ROOT, 1000, 1001}, capP : BOOLEAN, capE : BOOLEAN] :
        /\ id.capE => id.capP
        /\ (id.ruid = ROOT \/ id.euid = ROOT) => id.capP
        /\ id.euid = ROOT => id.capE}

\* the binary installed with file capabilities, run by an ordinary user
FileCaps == [ruid |-> 1000, euid |-> 1000, capP |-> TRUE, capE |-> TRUE]

DirKinds == {"absent", "root755", "user777"}

InitialDirs(prog, kind, id, cwd) ==
    LET rel == IF cwd = "/" THEN "/tmp" ELSE cwd \o "/tmp"
        all == {"/", "/tmp", rel, SPFS_DIR(prog), SHOTS_DIR, RUNTIME_DIR(prog),
                RUNTIME_LOWER_DIR(prog), RUNTIME_UPPER_DIR(prog), RUNTIME_WORK_DIR(prog)}
    IN  [q \in all |->
            IF q = "/" THEN [exists |-> TRUE, mode |-> 493, owner |-> ROOT]
            ELSE IF q = "/tmp" THEN [exists |-> TRUE, mode |-> 1023, owner |-> ROOT]
            ELSE IF kind = "root755" THEN [exists |-> TRUE, mode |-> 493, owner |-> ROOT]
            ELSE IF kind = "user777" THEN [exists |-> TRUE, mode |-> 511, owner |-> id.ruid]
            ELSE ABSENT]

Argvs(E, S, R, D, M, BAD, CMD, ARGC) ==
    [e : E, s : S, r : R, d : D, m : M, bad : BAD, cmd : CMD, argc : ARGC]

\* statfail: which stat of is_mounted fails for a reason other than a missing path;
\* sigchld: the disposition of SIGCHLD the process inherited through execve
MkInputs(PROG, ARGV, ID, UMASK, CWD, MOUNTED, KIND) ==
    {in \in [prog : PROG, argv : ARGV, id : ID, umask : UMASK, cwd : CWD,
             mounted0 : MOUNTED, kind : KIND, statfail : {"none"}, sigchld : {"SIG_DFL"}] :
        \A q \in in.mounted0 : InitialDirs(in.prog, in.kind, in.id, in.cwd)[q].exists}

WithStatFail(S) == {[in EXCEPT !.statfail = f] : in \in S, f \in {"parent", "target"}}

\* spfs-enter: every identity with every mode flag
SpfsIdentityInputs ==
    MkInputs({SPFS_ENTER},
             Argvs(BOOLEAN, BOOLEAN, BOOLEAN, {<<"/a">>}, {<<>>}, {""}, {TRUE, FALSE}, {0}),
             Identities, {18}, {"/"}, {{"/tmp"}, {"/tmp", "/spfs"}}, {"root755"})

\* spfs-enter: every layer list and mask list
SpfsLayerInputs ==
    MkInputs({SPFS_ENTER},
             Argvs(BOOLEAN, {FALSE}, BOOLEAN, LayerLists, MaskLists, {""}, {TRUE, FALSE}, {0}),
             {FileCaps}, {18}, {"/"}, {{"/tmp", "/spfs"}}, {"root755"})

\* spfs-enter: the usage errors
SpfsUsageInputs ==
    MkInputs({SPFS_ENTER},
             Argvs({FALSE}, {FALSE}, BOOLEAN, {<<>>}, {<<>>}, {"", ":", "?"}, BOOLEAN, {0}),
             {FileCaps}, {18}, {"/"}, {{"/tmp"}}, {"root755"})

\* spfs-enter: every filesystem at start
SpfsFsInputs ==
    MkInputs({SPFS_ENTER},
             Argvs(BOOLEAN, BOOLEAN, BOOLEAN, {<<>>}, {<<>>}, {""}, {TRUE, FALSE}, {0}),
             {FileCaps}, {0, 18}, {"/", "/home/user"},
             SUBSET {"/tmp", "/spfs", "/shots"}, DirKinds)

\* spenv-enter LOWERDIRS COMMAND: argc is 1, 2 or 3
SpenvEnterInputs ==
    MkInputs({SPENV_ENTER},
             Argvs({TRUE}, BOOLEAN, {FALSE}, LayerLists, {<<>>}, {""}, {TRUE}, {3}),
             {FileCaps}, {18}, {"/"}, SUBSET {"/tmp", "/env"}, DirKinds)
    \cup
    MkInputs({SPENV_ENTER},
             Argvs({TRUE}, {FALSE}, {FALSE}, {<<"/a">>}, {<<>>}, {""}, {TRUE}, {1, 2, 3}),
             Identities, {18}, {"/"}, {{"/tmp"}}, {"root755"})

\* spenv-mount OVERLAY_OPTIONS COMMAND
SpenvMountInputs ==
    MkInputs({SPENV_MOUNT},
             Argvs({TRUE}, {FALSE}, {FALSE}, {<<"/a">>}, {<<>>}, {""}, {TRUE}, {2, 3}),
             Identities, {0, 18}, {"/"}, SUBSET {"/tmp", "/env"}, {"absent", "root755"})

\* spenv-remount OVERLAY_OPTIONS: argc is 1, 2 or 3
SpenvRemountInputs ==
    MkInputs({SPENV_REMOUNT},
             Argvs({TRUE}, {FALSE}, {TRUE}, {<<"/a">>}, {<<>>}, {""}, {FALSE}, {1, 2, 3}),
             Identities, {18}, {"/"}, SUBSET {"/tmp", "/env"}, {"absent", "root755"})

\* every program with a stat of is_mounted failing
ProbeInputs ==
    WithStatFail(
        MkInputs({SPFS_ENTER},
                 Argvs({FALSE}, BOOLEAN, BOOLEAN, {<<>>}, {<<>>}, {""}, {TRUE, FALSE}, {0}),
                 {FileCaps}, {18}, {"/"}, SUBSET {"/tmp", "/spfs", "/shots"}, {"root755"})
        \cup MkInputs({SPENV_ENTER},
                 Argvs({TRUE}, {FALSE}, {FALSE}, {<<"/a">>}, {<<>>}, {""}, {TRUE}, {3}),
                 {FileCaps}, {18}, {"/"}, SUBSET {"/tmp", "/env"}, {"root755"})
        \cup MkInputs({SPENV_MOUNT},
                 Argvs({TRUE}, {FALSE}, {FALSE}, {<<"/a">>}, {<<>>}, {""}, {TRUE}, {3}),
                 {FileCaps}, {18}, {"/"}, SUBSET {"/tmp", "/env"}, {"root755"})
        \cup MkInputs({SPENV_REMOUNT},
                 Argvs({TRUE}, {FALSE}, {TRUE}, {<<"/a">>}, {<<>>}, {""}, {FALSE}, {2}),
                 {FileCaps}, {18}, {"/"}, SUBSET {"/tmp", "/env"}, {"root755"}))

WithSigchldIgnored(S) == {[in EXCEPT !.sigchld = "SIG_IGN"] : in \in S}

\* every program that forks the mount command, started with SIGCHLD ignored
WaitInputs ==
    WithSigchldIgnored(
        MkInputs({SPFS_ENTER},
                 Argvs({FALSE}, {FALSE}, BOOLEAN, {<<"/a">>}, {<<>>}, {""}, {TRUE, FALSE}, {0}),
                 {FileCaps}, {18}, {"/"}, {{"/tmp", "/spfs"}}, {"root755"})
        \cup MkInputs({SPENV_ENTER},
                 Argvs({TRUE}, {FALSE}, {FALSE}, {<<"/a">>}, {<<>>}, {""}, {TRUE}, {3}),
                 {FileCaps}, {18}, {"/"}, {{"/tmp"}}, {"root755"})
        \cup MkInputs({SPENV_MOUNT},
                 Argvs({TRUE}, {FALSE}, {FALSE}, {<<"/a">>}, {<<>>}, {""}, {TRUE}, {3}),
                 {FileCaps}, {18}, {"/"}, {{"/tmp"}}, {"root755"}))

\* spfs-enter takes a command exactly when the input says so; -r runs without one
Inputs ==
    SpfsIdentityInputs \cup SpfsLayerInputs \cup SpfsUsageInputs \cup SpfsFsInputs
    \cup SpenvEnterInputs \cup SpenvMountInputs \cup SpenvRemountInputs \cup ProbeInputs
    \cup WaitInputs

NoProc ==
    [pc |-> "none", i |-> 0, result |-> 0, exit |-> -1, signal |-> 0,
     ruid |-> 0, euid |-> 0, suid |-> 0, capP |-> FALSE, capE |-> FALSE]

StartProc(in) ==
    [pc |-> IF in.prog = SPFS_ENTER THEN "getopt"
            ELSE IF in.prog = SPENV_ENTER THEN "step"
            ELSE IF in.prog = SPENV_MOUNT THEN "sm_setup" ELSE "rm_main",
     i |-> 1, result |-> 0, exit |-> -1, signal |-> 0,
     ruid |-> in.id.ruid, euid |-> in.id.euid, suid |-> in.id.euid,
     capP |-> in.id.capP, capE |-> in.id.capE]

Init ==
    /\ input \in Inputs
    /\ SPFS_LOWERDIRS = NULL
    /\ SPFS_REMOUNT_ONLY = FALSE
    /\ SPFS_EDITABLE = FALSE
    /\ SPFS_VIRTUALIZE_SHOTS = FALSE
    /\ SPFS_MASKED_PATHS = <<>>
    /\ original_uid = UNSET_UID
    /\ original_euid = UNSET_UID
    /\ procs = [parent |-> StartProc(input), child |-> NoProc]
    /\ newns = FALSE
    /\ mounted = input.mounted0
    /\ private = {}
    /\ dirs = InitialDirs(input.prog, input.kind, input.id, input.cwd)
    /\ masked = {}
    /\ mountLog = <<>>
    /\ allocs = <<>>
    /\ execs = <<>>
    /\ trace = <<>>

(***************************************************************************)
(* The step loop of main                                                   *)
(***************************************************************************)
globalVars == <<SPFS_LOWERDIRS, SPFS_REMOUNT_ONLY, SPFS_EDITABLE, SPFS_VIRTUALIZE_SHOTS,
                SPFS_MASKED_PATHS>>
uidVars == <<original_uid, original_euid>>
fsVars == <<newns, mounted, private, dirs, masked, mountLog>>

Terminated(p) == p.pc \in {"none", "exited", "execd"}

\* the process that is running: the child from fork until it ends, else the parent
Cur == IF ~Terminated(procs["child"]) THEN "child" ELSE "parent"
Me == procs[Cur]

AtStep(name) == Me.pc = "step" /\ steps[Me.i] = name

\* main returns r
Exit(p, r) == [p EXCEPT !.pc = "exited", !.exit = ExitStatus(r)]

\* the loop without its break: a failing step is followed by the next one
LoopNext_NoBreak(p, r) ==
    IF p.i = Len(steps) THEN Exit([p EXCEPT !.result = r], r)
    ELSE [p EXCEPT !.pc = "step", !.i = p.i + 1, !.result = r]

\* the loop giving the privileges back when a step fails
LoopNext_Rollback(p, r) ==
    IF r # 0
    THEN Exit([p EXCEPT !.result = r,
                        !.ruid = IF original_uid = UNSET_UID THEN @ ELSE original_uid,
                        !.euid = IF original_euid = UNSET_UID THEN @ ELSE original_euid], r)
    ELSE IF p.i = Len(steps) THEN Exit([p EXCEPT !.result = r], r)
    ELSE [p EXCEPT !.pc = "step", !.i = p.i + 1, !.result = r]

\* result = steps[i](); if (result != 0) break; ... return result;
LoopNext(p, r) ==
    IF r # 0 THEN Exit([p EXCEPT !.result = r], r)
    ELSE IF p.i = Len(steps) THEN Exit([p EXCEPT !.result = r], r)
    ELSE [p EXCEPT !.pc = "step", !.i = p.i + 1, !.result = r]

\* the step `name`, run by the current process, left it as p and returned r
Finish(p, name, r) ==
    /\ procs' = [procs EXCEPT ![Cur] = LoopNext(p, r)]
    /\ trace' = Append(trace, [who |-> Cur, step |-> name, ret |-> r])

(***************************************************************************)
(* spfs-enter main: getopt loop and usage checks (main.c:24-87)            *)
(***************************************************************************)
\* main without the two tests on optind after the getopt loop
main_getopt_NoUsageCheck ==
    /\ procs["parent"].pc = "getopt"
    /\ LET a == input.argv
           usage == a.bad # ""
       IN  /\ SPFS_EDITABLE' = a.e
           /\ SPFS_VIRTUALIZE_SHOTS' = a.s
           /\ SPFS_REMOUNT_ONLY' = a.r
           /\ SPFS_LOWERDIRS' = JoinLowerdirs(NULL, a.d)
           /\ SPFS_MASKED_PATHS' = AddMasks(<<>>, a.m)
           /\ allocs' = allocs \o JoinLowerdirsAllocs(NULL, a.d) \o AddMasksAllocs(0, a.m)
           /\ procs' = [procs EXCEPT !["parent"] =
                           IF usage THEN Exit(@, 1) ELSE [@ EXCEPT !.pc = "step", !.i = 1]]
    /\ UNCHANGED <<input, uidVars, fsVars, execs, trace>>

main_getopt ==
    /\ procs["parent"].pc = "getopt"
    /\ LET a == input.argv
           usage == \/ a.bad # ""
                    \/ ~a.cmd /\ ~a.r
                    \/ a.cmd /\ a.r
       IN  /\ SPFS_EDITABLE' = a.e
           /\ SPFS_VIRTUALIZE_SHOTS' = a.s
           /\ SPFS_REMOUNT_ONLY' = a.r
           /\ SPFS_LOWERDIRS' = JoinLowerdirs(NULL, a.d)
           /\ SPFS_MASKED_PATHS' = AddMasks(<<>>, a.m)
           /\ allocs' = allocs \o JoinLowerdirsAllocs(NULL, a.d) \o AddMasksAllocs(0, a.m)
           /\ procs' = [procs EXCEPT !["parent"] =
                           IF usage THEN Exit(@, 1) ELSE [@ EXCEPT !.pc = "step", !.i = 1]]
    /\ UNCHANGED <<input, uidVars, fsVars, execs, trace>>

(***************************************************************************)
(* spenv-enter parse_args and the step_pass / step_fail it selects         *)
(***************************************************************************)
parse_args ==
    /\ input.prog = SPENV_ENTER
    /\ AtStep("parse_args")
    /\ IF input.argv.argc < 3
       THEN /\ UNCHANGED globalVars
            /\ Finish(Me, "parse_args", 1)
       ELSE /\ SPFS_LOWERDIRS' = JoinColon(input.argv.d)
            /\ SPFS_VIRTUALIZE_SHOTS' = input.argv.s
            /\ SPFS_EDITABLE' = TRUE
            /\ UNCHANGED <<SPFS_REMOUNT_ONLY, SPFS_MASKED_PATHS>>
            /\ Finish(Me, "parse_args", 0)
    /\ UNCHANGED <<input, uidVars, fsVars, allocs, execs>>

(***************************************************************************)
(* The steps                                                               *)
(***************************************************************************)
become_root ==
    /\ AtStep("become_root")
    /\ LET a == seteuid(Me, ROOT)
           b == setuid(a.p, ROOT)
       IN  /\ original_euid' = Me.euid
           /\ IF ~a.ok
              THEN /\ UNCHANGED original_uid
                   /\ Finish(a.p, "become_root", 1)
              ELSE /\ original_uid' = a.p.ruid
                   /\ IF ~b.ok
                      THEN Finish(b.p, "become_root", 1)
                      ELSE \E r \in Indeterminate : Finish(b.p, "become_root", r)
    /\ UNCHANGED <<input, globalVars, fsVars, allocs, execs>>

enter_mount_namespace ==
    /\ AtStep("enter_mount_namespace")
    /\ \E ok \in BOOLEAN :
          /\ ok => Privileged(Me)
          /\ newns' = (newns \/ ok)
          /\ Finish(Me, "enter_mount_namespace", IF ok THEN 0 ELSE 1)
    /\ UNCHANGED <<input, globalVars, uidVars, mounted, private, dirs, masked, mountLog,
                   allocs, execs>>

\* mount("none", target, NULL, MS_PRIVATE, NULL)
CanPrivatize(p, target, fsMounted) == Privileged(p) /\ (target = "/" \/ target \in fsMounted)

\* spfs-enter/steps.c privatize_existing_mounts
privatize_existing_mounts ==
    /\ input.prog = SPFS_ENTER
    /\ AtStep("privatize_existing_mounts")
    /\ \E fail \in {"none", "/", "/tmp", SHOTS_DIR} :
          LET okRoot == CanPrivatize(Me, "/", mounted) /\ fail # "/"
              tryTmp == is_mounted("tmp", dirs, mounted) # 0
              okTmp == CanPrivatize(Me, "/tmp", mounted) /\ fail # "/tmp"
              tryShots == SPFS_VIRTUALIZE_SHOTS /\ is_mounted(SHOTS_DIR, dirs, mounted) # 0
              okShots == CanPrivatize(Me, SHOTS_DIR, mounted) /\ fail # SHOTS_DIR
          IN  IF ~okRoot
              THEN /\ UNCHANGED private
                   /\ Finish(Me, "privatize_existing_mounts", 1)
              ELSE IF tryTmp /\ ~okTmp
              THEN /\ private' = private \cup {"/"}
                   /\ Finish(Me, "privatize_existing_mounts", 1)
              ELSE IF tryShots /\ ~okShots
              THEN /\ private' = private \cup {"/"} \cup (IF tryTmp THEN {"/tmp"} ELSE {})
                   /\ Finish(Me, "privatize_existing_mounts", 1)
              ELSE /\ private' = private \cup {"/"} \cup (IF tryTmp THEN {"/tmp"} ELSE {})
                                         \cup (IF tryShots THEN {SHOTS_DIR} ELSE {})
                   /\ Finish(Me, "privatize_existing_mounts", 0)
    /\ UNCHANGED <<input, globalVars, uidVars, newns, mounted, dirs, masked, mountLog,
                   allocs, execs>>

\* spenv-enter/steps.c privatize_existing_mounts
spenv_privatize_existing_mounts ==
    /\ input.prog = SPENV_ENTER
    /\ AtStep("privatize_existing_mounts")
    /\ \E fail \in {"none", "/", "/tmp"} :
          LET okRoot == CanPrivatize(Me, "/", mounted) /\ fail # "/"
              okTmp == CanPrivatize(Me, "/tmp", mounted) /\ fail # "/tmp"
          IN  IF ~okRoot
              THEN /\ UNCHANGED private
                   /\ Finish(Me, "privatize_existing_mounts", 1)
              ELSE IF ~okTmp
              THEN /\ private' = private \cup {"/"}
                   /\ Finish(Me, "privatize_existing_mounts", 1)
              ELSE /\ private' = private \cup {"/", "/tmp"}
                   /\ Finish(Me, "privatize_existing_mounts", 0)
    /\ UNCHANGED <<input, globalVars, uidVars, newns, mounted, dirs, masked, mountLog,
                   allocs, execs>>

ensure_mount_targets_exist ==
    /\ AtStep("ensure_mount_targets_exist")
    /\ \E f1 \in FailPoints, f2 \in FailPoints :
          LET a == mkdir_permissive(input.prog, Me, SPFS_DIR(input.prog), dirs, f1)
              b == mkdir_permissive(input.prog, Me, RUNTIME_DIR(input.prog), a.dirs, f2)
          IN  IF a.ret # 0
              THEN /\ dirs' = a.dirs
                   /\ Finish(Me, "ensure_mount_targets_exist", 1)
              ELSE IF b.ret # 0
              THEN /\ dirs' = b.dirs
                   /\ Finish(Me, "ensure_mount_targets_exist", 1)
              ELSE /\ dirs' = b.dirs
                   /\ \E r \in Indeterminate : Finish(Me, "ensure_mount_targets_exist", r)
    /\ UNCHANGED <<input, globalVars, uidVars, newns, mounted, private, masked, mountLog,
                   allocs, execs>>

ensure_mounts_already_exist ==
    /\ AtStep("ensure_mounts_already_exist")
    /\ LET result == is_mounted(SPFS_DIR(input.prog), dirs, mounted)
       IN  IF result = -1 THEN Finish(Me, "ensure_mounts_already_exist", 1)
           ELSE IF result # 0 THEN Finish(Me, "ensure_mounts_already_exist", 0)
           ELSE Finish(Me, "ensure_mounts_already_exist", 1)
    /\ UNCHANGED <<input, globalVars, uidVars, fsVars, allocs, execs>>

\* ensure_mounts_do_not_exist that reports a mounted target without failing
ensure_mounts_do_not_exist_WarnOnly ==
    /\ AtStep("ensure_mounts_do_not_exist")
    /\ LET result == is_mounted(SPFS_DIR(input.prog), dirs, mounted)
       IN  IF result = -1 THEN Finish(Me, "ensure_mounts_do_not_exist", 1)
           ELSE \E r \in Indeterminate : Finish(Me, "ensure_mounts_do_not_exist", r)
    /\ UNCHANGED <<input, globalVars, uidVars, fsVars, allocs, execs>>

ensure_mounts_do_not_exist ==
    /\ AtStep("ensure_mounts_do_not_exist")
    /\ LET result == is_mounted(SPFS_DIR(input.prog), dirs, mounted)
       IN  IF result = -1 THEN Finish(Me, "ensure_mounts_do_not_exist", 1)
           ELSE IF result # 0 THEN Finish(Me, "ensure_mounts_do_not_exist", 1)
           ELSE \E r \in Indeterminate : Finish(Me, "ensure_mounts_do_not_exist", r)
    /\ UNCHANGED <<input, globalVars, uidVars, fsVars, allocs, execs>>

\* mount("none", dir, "tmpfs", flags, 0)
CanMountTmpfs(p, dir, fsDirs) == Privileged(p) /\ fsDirs[dir].exists

TmpfsEntry(dir) == [op |-> "tmpfs", target |-> dir, args |-> <<>>]

\* setup_runtime with the lower directory made before the tmpfs is mounted
setup_runtime_LowerBeforeMount ==
    /\ input.prog = SPFS_ENTER
    /\ AtStep("setup_runtime")
    /\ \E failMount \in BOOLEAN, f1 \in FailPoints, f2 \in FailPoints, f3 \in FailPoints :
          LET prog == input.prog
              a == mkdir_permissive(prog, Me, RUNTIME_LOWER_DIR(prog), dirs, f1)
              okMount == CanMountTmpfs(Me, RUNTIME_DIR(prog), a.dirs) /\ ~failMount
              d0 == IF SPFS_EDITABLE THEN MountTmpfs(RUNTIME_DIR(prog), a.dirs) ELSE a.dirs
              m0 == IF SPFS_EDITABLE THEN mounted \cup {RUNTIME_DIR(prog)} ELSE mounted
              l0 == IF SPFS_EDITABLE THEN Append(mountLog, TmpfsEntry(RUNTIME_DIR(prog)))
                    ELSE mountLog
              b == mkdir_permissive(prog, Me, RUNTIME_UPPER_DIR(prog), d0, f2)
              c == mkdir_permissive(prog, Me, RUNTIME_WORK_DIR(prog), b.dirs, f3)
          IN  IF a.ret # 0
              THEN /\ dirs' = a.dirs
                   /\ UNCHANGED <<mounted, mountLog>>
                   /\ Finish(Me, "setup_runtime", 1)
              ELSE IF SPFS_EDITABLE /\ ~okMount
              THEN /\ dirs' = a.dirs
                   /\ UNCHANGED <<mounted, mountLog>>
                   /\ Finish(Me, "setup_runtime", 1)
              ELSE /\ mounted' = m0
                   /\ mountLog' = l0
                   /\ IF ~SPFS_EDITABLE
                      THEN dirs' = d0 /\ Finish(Me, "setup_runtime", 0)
                      ELSE IF b.ret # 0
                      THEN dirs' = b.dirs /\ Finish(Me, "setup_runtime", 1)
                      ELSE IF c.ret # 0
                      THEN dirs' = c.dirs /\ Finish(Me, "setup_runtime", 1)
                      ELSE /\ dirs' = c.dirs
                           /\ \E r \in Indeterminate : Finish(Me, "setup_runtime", r)
    /\ UNCHANGED <<input, globalVars, uidVars, newns, private, masked, allocs, execs>>

\* spfs-enter/steps.c setup_runtime
setup_runtime ==
    /\ input.prog = SPFS_ENTER
    /\ AtStep("setup_runtime")
    /\ \E failMount \in BOOLEAN, f1 \in FailPoints, f2 \in FailPoints, f3 \in FailPoints :
          LET prog == input.prog
              okMount == CanMountTmpfs(Me, RUNTIME_DIR(prog), dirs) /\ ~failMount
              d0 == IF SPFS_EDITABLE THEN MountTmpfs(RUNTIME_DIR(prog), dirs) ELSE dirs
              m0 == IF SPFS_EDITABLE THEN mounted \cup {RUNTIME_DIR(prog)} ELSE mounted
              l0 == IF SPFS_EDITABLE THEN Append(mountLog, TmpfsEntry(RUNTIME_DIR(prog)))
                    ELSE mountLog
              a == mkdir_permissive(prog, Me, RUNTIME_LOWER_DIR(prog), d0, f1)
              b == mkdir_permissive(prog, Me, RUNTIME_UPPER_DIR(prog), a.dirs, f2)
              c == mkdir_permissive(prog, Me, RUNTIME_WORK_DIR(prog), b.dirs, f3)
          IN  IF SPFS_EDITABLE /\ ~okMount
              THEN /\ UNCHANGED <<dirs, mounted, mountLog>>
                   /\ Finish(Me, "setup_runtime", 1)
              ELSE /\ mounted' = m0
                   /\ mountLog' = l0
                   /\ IF a.ret # 0
                      THEN dirs' = a.dirs /\ Finish(Me, "setup_runtime", 1)
                      ELSE IF ~SPFS_EDITABLE
                      THEN dirs' = a.dirs /\ Finish(Me, "setup_runtime", 0)
                      ELSE IF b.ret # 0
                      THEN dirs' = b.dirs /\ Finish(Me, "setup_runtime", 1)
                      ELSE IF c.ret # 0
                      THEN dirs' = c.dirs /\ Finish(Me, "setup_runtime", 1)
                      ELSE /\ dirs' = c.dirs
                           /\ \E r \in Indeterminate : Finish(Me, "setup_runtime", r)
    /\ UNCHANGED <<input, globalVars, uidVars, newns, private, masked, allocs, execs>>

\* spenv-enter/steps.c setup_runtime
spenv_setup_runtime ==
    /\ input.prog = SPENV_ENTER
    /\ AtStep("setup_runtime")
    /\ \E failMount \in BOOLEAN, f1 \in FailPoints, f2 \in FailPoints, f3 \in FailPoints :
          LET prog == input.prog
              okMount == CanMountTmpfs(Me, RUNTIME_DIR(prog), dirs) /\ ~failMount
              d0 == MountTmpfs(RUNTIME_DIR(prog), dirs)
              a == mkdir_permissive(prog, Me, RUNTIME_UPPER_DIR(prog), d0, f1)
              b == mkdir_permissive(prog, Me, RUNTIME_LOWER_DIR(prog), a.dirs, f2)
              c == mkdir_permissive(prog, Me, RUNTIME_WORK_DIR(prog), b.dirs, f3)
          IN  IF ~okMount
              THEN /\ UNCHANGED <<dirs, mounted, mountLog>>
                   /\ Finish(Me, "setup_runtime", 1)
              ELSE /\ mounted' = mounted \cup {RUNTIME_DIR(prog)}
                   /\ mountLog' = Append(mountLog, TmpfsEntry(RUNTIME_DIR(prog)))
                   /\ IF a.ret # 0
                      THEN dirs' = a.dirs /\ Finish(Me, "setup_runtime", 1)
                      ELSE IF b.ret # 0
                      THEN dirs' = b.dirs /\ Finish(Me, "setup_runtime", 1)
                      ELSE IF c.ret # 0
                      THEN dirs' = c.dirs /\ Finish(Me, "setup_runtime", 1)
                      ELSE /\ dirs' = c.dirs
                           /\ \E r \in Indeterminate : Finish(Me, "setup_runtime", r)
    /\ UNCHANGED <<input, globalVars, uidVars, newns, private, masked, allocs, execs>>

(***************************************************************************)
(* mount_env: the parent up to fork, the child, the parent from waitpid on *)
(***************************************************************************)
MountExitCodes == {0, 1, 32}
CommandExitCodes == {0, 1}

\* the status waitpid stores for a terminated child
WaitStatus(p) == IF p.signal # 0 THEN p.signal ELSE p.exit * WAIT_EXIT_SHIFT

\* the argument vector of the mount command
MountArgv(options, target) ==
    <<"/usr/bin/mount", "-t", "overlay", "-o", options, "none", target>>

ExecEntry(who, p, what, argvec, ok) ==
    [who |-> who, what |-> what, argv |-> argvec, ok |-> ok, at |-> Len(trace),
     ruid |-> p.ruid, euid |-> p.euid, capP |-> p.capP, capE |-> p.capE]

\* the overlay mount needs root and every directory its options name
CanMountOverlay(p, prog, fsDirs) ==
    /\ p.euid = ROOT
    /\ fsDirs[SPFS_DIR(prog)].exists
    /\ prog # SPENV_MOUNT => fsDirs[RUNTIME_LOWER_DIR(prog)].exists
    /\ (prog # SPENV_MOUNT /\ SPFS_EDITABLE) =>
           fsDirs[RUNTIME_UPPER_DIR(prog)].exists /\ fsDirs[RUNTIME_WORK_DIR(prog)].exists

\* what the caller of spenv-mount passes as OVERLAY_OPTIONS
SpenvMountOptions == <<"lowerdir=">> \o JoinColon(input.argv.d)

OverlayOptions ==
    IF input.prog = SPENV_MOUNT THEN SpenvMountOptions
    ELSE get_overlay_args(input.prog, SPFS_LOWERDIRS, SPFS_EDITABLE).args

mount_env ==
    /\ AtStep("mount_env")
    /\ Cur = "parent"
    /\ allocs' = allocs \o get_overlay_args(input.prog, SPFS_LOWERDIRS, SPFS_EDITABLE).allocs
    /\ \E forked \in BOOLEAN :
          IF ~forked
          THEN Finish(Me, "mount_env", 1)
          ELSE /\ procs' = [procs EXCEPT !["parent"] = [Me EXCEPT !.pc = "waitpid"],
                                         !["child"] = [Me EXCEPT !.pc = "execl"]]
               /\ UNCHANGED trace
    /\ UNCHANGED <<input, globalVars, uidVars, fsVars, execs>>

\* the child: execl("/usr/bin/mount", ...); when it fails the child runs on
mount_child_execl ==
    /\ procs["child"].pc = "execl"
    /\ LET me == procs["child"]
           target == SPFS_DIR(input.prog)
           argvec == MountArgv(OverlayOptions, target)
       IN  \E outcome \in {"exec fails", "killed", "exit"}, code \in MountExitCodes :
              /\ outcome # "exit" => code = 0
              /\ (outcome = "exit" /\ code = 0) => CanMountOverlay(me, input.prog, dirs)
              /\ execs' = Append(execs, ExecEntry("child", me, "mount", argvec,
                                                  outcome # "exec fails"))
              /\ IF outcome = "exec fails"
                 THEN /\ procs' = [procs EXCEPT !["child"].pc =
                                      IF input.prog = SPENV_MOUNT THEN "sm_waitpid"
                                      ELSE "waitpid"]
                      /\ UNCHANGED <<mounted, mountLog>>
                 ELSE IF outcome = "killed"
                 THEN /\ procs' = [procs EXCEPT !["child"].pc = "exited",
                                                !["child"].signal = 9]
                      /\ UNCHANGED <<mounted, mountLog>>
                 ELSE /\ procs' = [procs EXCEPT !["child"].pc = "exited",
                                                !["child"].exit = code]
                      /\ mounted' = IF code = 0 THEN mounted \cup {target} ELSE mounted
                      /\ mountLog' = IF code = 0
                                     THEN Append(mountLog, [op |-> "overlay", target |-> target,
                                                            args |-> OverlayOptions])
                                     ELSE mountLog
    /\ UNCHANGED <<input, globalVars, uidVars, newns, private, dirs, masked, allocs, trace>>

\* the status of the terminated child as the parent's waitpid reports it
ChildStatuses ==
    IF procs["child"].pc = "execd"
    THEN {c * WAIT_EXIT_SHIFT : c \in CommandExitCodes}
    ELSE {WaitStatus(procs["child"])}

\* waitpid fails with ECHILD, once the child has ended, when SIGCHLD is ignored: the
\* kernel reaps the child itself and no status is stored
WaitFails == input.sigchld = "SIG_IGN"

\* the parent: waitpid(child_pid, &result, 0); return result;
\* result is an uninitialised int that only a successful waitpid writes
mount_env_wait ==
    /\ Cur = "parent"
    /\ Me.pc = "waitpid"
    /\ \E result \in (IF WaitFails THEN Indeterminate ELSE ChildStatuses) :
          Finish(Me, "mount_env", result)
    /\ UNCHANGED <<input, globalVars, uidVars, fsVars, allocs, execs>>

\* the child whose execl failed: child_pid is 0, waitpid fails, result is never written
mount_env_in_child ==
    /\ Cur = "child"
    /\ Me.pc = "waitpid"
    /\ \E result \in Indeterminate : Finish(Me, "mount_env", result)
    /\ UNCHANGED <<input, globalVars, uidVars, fsVars, allocs, execs>>

\* spfs-enter/steps.c mount_shots_if_necessary
mount_shots_if_necessary ==
    /\ AtStep("mount_shots_if_necessary")
    /\ IF ~SPFS_VIRTUALIZE_SHOTS
       THEN /\ UNCHANGED <<dirs, mounted, mountLog>>
            /\ Finish(Me, "mount_shots_if_necessary", 0)
       ELSE \E ok \in BOOLEAN :
               /\ ok => CanMountTmpfs(Me, SHOTS_DIR, dirs)
               /\ IF ok
                  THEN /\ dirs' = MountTmpfs(SHOTS_DIR, dirs)
                       /\ mounted' = mounted \cup {SHOTS_DIR}
                       /\ mountLog' = Append(mountLog, TmpfsEntry(SHOTS_DIR))
                       /\ Finish(Me, "mount_shots_if_necessary", 0)
                  ELSE /\ UNCHANGED <<dirs, mounted, mountLog>>
                       /\ Finish(Me, "mount_shots_if_necessary", -1)
    /\ UNCHANGED <<input, globalVars, uidVars, newns, private, masked, allocs, execs>>

become_original_user ==
    /\ AtStep("become_original_user")
    /\ LET a == setuid(Me, original_uid)
           b == seteuid(a.p, original_euid)
       IN  IF ~a.ok THEN Finish(a.p, "become_original_user", 1)
           ELSE IF ~b.ok THEN Finish(b.p, "become_original_user", 1)
           ELSE Finish(b.p, "become_original_user", 0)
    /\ UNCHANGED <<input, globalVars, uidVars, fsVars, allocs, execs>>

CapFailPoints == {"none", "cap_clear", "cap_set_proc", "cap_free"}

\* the capability set cleared in the copy only, cap_set_proc never called
drop_caps_NoSet(p, fail) ==
    IF fail \in {"cap_clear", "cap_set_proc", "cap_free"} THEN [ret |-> -1, p |-> p]
    ELSE [ret |-> 0, p |-> p]

\* cap_get_proc, cap_clear, cap_set_proc, cap_free: [ret, p]
drop_caps(p, fail) ==
    IF fail = "cap_clear" THEN [ret |-> -1, p |-> p]
    ELSE IF fail = "cap_set_proc" THEN [ret |-> -1, p |-> p]
    ELSE IF fail = "cap_free" THEN [ret |-> -1, p |-> cap_set_proc_empty(p)]
    ELSE [ret |-> 0, p |-> cap_set_proc_empty(p)]

drop_all_capabilities ==
    /\ AtStep("drop_all_capabilities")
    /\ \E fail \in CapFailPoints :
          LET a == drop_caps(Me, fail)
          IN  Finish(a.p, "drop_all_capabilities", a.ret)
    /\ UNCHANGED <<input, globalVars, uidVars, fsVars, allocs, execs>>

\* execv(SPFS_COMMAND[0], SPFS_COMMAND): on success the process image is replaced
run_command ==
    /\ AtStep("run_command")
    /\ \E ok \in BOOLEAN :
          /\ execs' = Append(execs, ExecEntry(Cur, Me, "command", <<"COMMAND">>, ok))
          /\ IF ok
             THEN /\ procs' = [procs EXCEPT ![Cur].pc = "execd"]
                  /\ trace' = Append(trace, [who |-> Cur, step |-> "run_command", ret |-> 0])
             ELSE Finish(Me, "run_command", -1)
    /\ UNCHANGED <<input, globalVars, uidVars, fsVars, allocs>>

(***************************************************************************)
(* Steps main.c names whose bodies are not in steps.c                      *)
(***************************************************************************)
Range(f) == {f[k] : k \in DOMAIN f}

unmount_env ==
    /\ AtStep("unmount_env")
    /\ \E ok \in BOOLEAN :
          /\ ok => (Privileged(Me) /\ SPFS_DIR(input.prog) \in mounted)
          /\ mounted' = IF ok THEN mounted \ {SPFS_DIR(input.prog)} ELSE mounted
          /\ mountLog' = IF ok
                         THEN Append(mountLog, [op |-> "umount", target |-> SPFS_DIR(input.prog),
                                                args |-> <<>>])
                         ELSE mountLog
          /\ Finish(Me, "unmount_env", IF ok THEN 0 ELSE 1)
    /\ UNCHANGED <<input, globalVars, uidVars, newns, private, dirs, masked, allocs, execs>>

mask_files ==
    /\ AtStep("mask_files")
    /\ \E ok \in BOOLEAN :
          /\ masked' = IF ok THEN masked \cup Range(SPFS_MASKED_PATHS) ELSE masked
          /\ Finish(Me, "mask_files", IF ok THEN 0 ELSE 1)
    /\ UNCHANGED <<input, globalVars, uidVars, newns, mounted, private, dirs, mountLog,
                   allocs, execs>>

mount_runtime ==
    /\ AtStep("mount_runtime")
    /\ \E r \in {0, 1} : Finish(Me, "mount_runtime", r)
    /\ UNCHANGED <<input, globalVars, uidVars, fsVars, allocs, execs>>

unlock_runtime ==
    /\ AtStep("unlock_runtime")
    /\ \E r \in {0, 1} : Finish(Me, "unlock_runtime", r)
    /\ UNCHANGED <<input, globalVars, uidVars, fsVars, allocs, execs>>

set_runtime_lock ==
    /\ AtStep("set_runtime_lock")
    /\ \E r \in {0, 1} : Finish(Me, "set_runtime_lock", r)
    /\ UNCHANGED <<input, globalVars, uidVars, fsVars, allocs, execs>>

(***************************************************************************)
(* spenv-mount main (spenv-mount/main.c:88-167)                            *)
(***************************************************************************)
Goto(p, pc, name) ==
    /\ procs' = [procs EXCEPT ![Cur] = [p EXCEPT !.pc = pc]]
    /\ trace' = Append(trace, [who |-> Cur, step |-> name, ret |-> 0])

ReturnFromMain(p, name, r) ==
    /\ procs' = [procs EXCEPT ![Cur] = Exit(p, r)]
    /\ trace' = Append(trace, [who |-> Cur, step |-> name, ret |-> r])

\* lines 90-127: usage, unshare, privatize, create_mount_target, is_mounted
spenv_mount_setup ==
    /\ Me.pc = "sm_setup"
    /\ \E fail \in {"none", "unshare", "mount", "mkdir", "chmod"} :
          LET okUnshare == Privileged(Me) /\ fail # "unshare"
              okPrivate == CanPrivatize(Me, "/", mounted) /\ fail # "mount"
              t == spenv_mkdir_permissive(Me, SPFS_DIR(SPENV_MOUNT), dirs, fail)
              m == is_mounted(SPFS_DIR(SPENV_MOUNT), t.dirs, mounted)
          IN  IF input.argv.argc < 3
              THEN /\ UNCHANGED <<newns, private, dirs>>
                   /\ ReturnFromMain(Me, "usage", 1)
              ELSE IF ~okUnshare
              THEN /\ UNCHANGED <<newns, private, dirs>>
                   /\ ReturnFromMain(Me, "unshare", 1)
              ELSE IF ~okPrivate
              THEN /\ newns' = TRUE
                   /\ UNCHANGED <<private, dirs>>
                   /\ ReturnFromMain(Me, "privatize", 1)
              ELSE /\ newns' = TRUE
                   /\ private' = private \cup {"/"}
                   /\ dirs' = t.dirs
                   /\ IF t.ret = -1 THEN ReturnFromMain(Me, "create_mount_target", 1)
                      ELSE IF m = -1 THEN ReturnFromMain(Me, "is_mounted", 1)
                      ELSE IF m # 0 THEN ReturnFromMain(Me, "is_mounted", 1)
                      ELSE Goto(Me, "sm_fork", "is_mounted")
    /\ UNCHANGED <<input, globalVars, uidVars, mounted, masked, mountLog, allocs, execs>>

\* lines 129-146: original_uid = getuid(); setuid(0); fork
spenv_mount_become_root ==
    /\ Me.pc = "sm_fork"
    /\ original_uid' = Me.ruid
    /\ LET a == setuid(Me, ROOT)
       IN  IF ~a.ok THEN ReturnFromMain(a.p, "setuid_root", 1)
           ELSE \E forked \in BOOLEAN :
                   IF ~forked THEN ReturnFromMain(a.p, "fork", 1)
                   ELSE /\ procs' = [procs EXCEPT
                               !["parent"] = [a.p EXCEPT !.pc = "sm_waitpid", !.result = 0],
                               !["child"] = [a.p EXCEPT !.pc = "execl", !.result = 0]]
                        /\ trace' = Append(trace, [who |-> "parent", step |-> "setuid_root",
                                                   ret |-> 0])
    /\ UNCHANGED <<input, globalVars, original_euid, fsVars, allocs, execs>>

\* lines 148-151: waitpid(child_pid, &result, 0); if (result != 0) return result;
spenv_mount_wait ==
    /\ Me.pc = "sm_waitpid"
    /\ IF Cur = "parent" /\ ~WaitFails
       THEN \E result \in ChildStatuses :
               IF result # 0 THEN ReturnFromMain([Me EXCEPT !.result = result], "mount", result)
               ELSE Goto([Me EXCEPT !.result = result], "sm_drop", "mount")
       ELSE IF Me.result # 0 THEN ReturnFromMain(Me, "mount", Me.result)
            ELSE Goto(Me, "sm_drop", "mount")
    /\ UNCHANGED <<input, globalVars, uidVars, fsVars, allocs, execs>>

\* lines 153-163: setuid(original_uid); drop_all_caps()
spenv_mount_drop_privileges ==
    /\ Me.pc = "sm_drop"
    /\ LET a == setuid(Me, original_uid)
       IN  IF ~a.ok THEN ReturnFromMain(a.p, "setuid_original", 1)
           ELSE \E fail \in CapFailPoints :
                   LET d == drop_caps(a.p, fail)
                   IN  /\ procs' = [procs EXCEPT ![Cur] =
                                      IF d.ret # 0 THEN Exit(d.p, 1)
                                      ELSE [d.p EXCEPT !.pc = "sm_execv"]]
                       /\ trace' = trace \o
                              <<[who |-> Cur, step |-> "setuid_original", ret |-> 0],
                                [who |-> Cur, step |-> "drop_all_caps", ret |-> d.ret]>>
    /\ UNCHANGED <<input, globalVars, uidVars, fsVars, allocs, execs>>

\* lines 165-167: execv(argv[2], argv+2); then the closing brace of main
spenv_mount_execv ==
    /\ Me.pc = "sm_execv"
    /\ \E ok \in BOOLEAN :
          /\ execs' = Append(execs, ExecEntry(Cur, Me, "command", <<"COMMAND">>, ok))
          /\ IF ok
             THEN /\ procs' = [procs EXCEPT ![Cur].pc = "execd"]
                  /\ trace' = Append(trace, [who |-> Cur, step |-> "execv", ret |-> 0])
             ELSE ReturnFromMain(Me, "execv", 0)
    /\ UNCHANGED <<input, globalVars, uidVars, fsVars, allocs>>

(***************************************************************************)
(* spenv-remount main (spenv-remount/main.c:35-64)                         *)
(***************************************************************************)
\* mount("overlay", MOUNT_TARGET, "overlay", 0, argv[1])
CanRemountOverlay(p, fsDirs) == Privileged(p) /\ fsDirs[SPFS_DIR(SPENV_REMOUNT)].exists

spenv_remount_main ==
    /\ Me.pc = "rm_main"
    /\ \E failMount \in BOOLEAN :
          LET target == SPFS_DIR(SPENV_REMOUNT)
              result == is_mounted(target, dirs, mounted)
              okMount == CanRemountOverlay(Me, dirs) /\ ~failMount
          IN  IF input.argv.argc # 2
              THEN UNCHANGED mountLog /\ ReturnFromMain(Me, "usage", 1)
              ELSE IF result = -1
              THEN UNCHANGED mountLog /\ ReturnFromMain(Me, "is_mounted", 1)
              ELSE IF result = 0
              THEN UNCHANGED mountLog /\ ReturnFromMain(Me, "is_mounted", 1)
              ELSE IF ~okMount
              THEN UNCHANGED mountLog /\ ReturnFromMain(Me, "mount", 1)
              ELSE /\ mountLog' = Append(mountLog, [op |-> "overlay", target |-> target,
                                                     args |-> SpenvMountOptions])
                   /\ ReturnFromMain(Me, "mount", 0)
    /\ UNCHANGED <<input, globalVars, uidVars, newns, mounted, private, dirs, masked,
                   allocs, execs>>

(***************************************************************************)
(* The specification                                                       *)
(***************************************************************************)
Next ==
    \/ main_getopt
    \/ parse_args
    \/ become_root
    \/ enter_mount_namespace
    \/ privatize_existing_mounts
    \/ spenv_privatize_existing_mounts
    \/ ensure_mount_targets_exist
    \/ ensure_mounts_already_exist
    \/ ensure_mounts_do_not_exist
    \/ mount_runtime
    \/ unmount_env
    \/ setup_runtime
    \/ spenv_setup_runtime
    \/ unlock_runtime
    \/ mount_env
    \/ mount_child_execl
    \/ mount_env_wait
    \/ mount_env_in_child
    \/ mask_files
    \/ set_runtime_lock
    \/ mount_shots_if_necessary
    \/ become_original_user
    \/ drop_all_capabilities
    \/ run_command
    \/ spenv_mount_setup
    \/ spenv_mount_become_root
    \/ spenv_mount_wait
    \/ spenv_mount_drop_privileges
    \/ spenv_mount_execv
    \/ spenv_remount_main

Spec == Init /\ [][Next]_vars

(***************************************************************************)
(* Properties                                                              *)
(***************************************************************************)
TraceOf(w) == SelectSeq(trace, LAMBDA t : t.who = w)
StepNames(tr) == [k \in 1..Len(tr) |-> tr[k].step]
Ran(w, name) == \E k \in 1..Len(trace) : trace[k].who = w /\ trace[k].step = name
StepLoopProgram == input.prog \in {SPFS_ENTER, SPENV_ENTER}

RestoreStep == IF input.prog = SPENV_MOUNT THEN "setuid_original" ELSE "become_original_user"
DropStep == IF input.prog = SPENV_MOUNT THEN "drop_all_caps" ELSE "drop_all_capabilities"

\* C1: the target command is exec'ed only by a process in which the uid restore and
\* then the capability drop have both returned success; at that exec the capability
\* sets are empty and the real and effective uid are the invoker's own ids, never a
\* 0 that the escalation put there.
C1_ExecOnlyAfterPrivilegesDropped ==
    \A k \in 1..Len(execs) :
        LET x == execs[k]
        IN  x.what = "command" =>
               /\ \E i \in 1..x.at, j \in 1..x.at :
                     /\ i < j
                     /\ trace[i] = [who |-> x.who, step |-> RestoreStep, ret |-> 0]
                     /\ trace[j] = [who |-> x.who, step |-> DropStep, ret |-> 0]
               /\ ~x.capP /\ ~x.capE
               /\ x.ruid = input.id.ruid
               /\ x.euid \in {input.id.ruid, input.id.euid}

\* C1 witness: an ordinary user's spfs-enter, escalated to root by become_root, has
\* exec'ed the target command.
C1_Witness ==
    /\ input.prog = SPFS_ENTER
    /\ input.id = FileCaps
    /\ \E k \in 1..Len(trace) : trace[k] = [who |-> "parent", step |-> "become_root", ret |-> 0]
    /\ \E k \in 1..Len(execs) :
          execs[k].what = "command" /\ execs[k].who = "parent" /\ execs[k].ok

\* C2: in the step loop, a step that returned nonzero is the last step its process
\* runs, and the process has returned from main.
C2_FailFast ==
    StepLoopProgram =>
        \A k \in 1..Len(trace) :
            trace[k].ret # 0 =>
               /\ \A j \in (k + 1)..Len(trace) : trace[j].who # trace[k].who
               /\ procs[trace[k].who].pc = "exited"

\* C2 witness: the remount sequence stopped at a failing step in the middle of the
\* list, the enter sequence likewise.
C2_Witness ==
    /\ StepLoopProgram
    /\ procs["parent"].pc = "exited"
    /\ LET tr == TraceOf("parent")
       IN  /\ Len(tr) \in 3..(Len(steps) - 2)
           /\ tr[Len(tr)].ret # 0

\* C3 (as claimed): whenever the step at which the loop stopped returned nonzero, the
\* exit status of spfs-enter is nonzero; when that step is mount_env and the mount
\* command exited with code c # 0, the exit status equals c.
C3_FailingStepExitsNonzero ==
    LET tr == TraceOf("parent")
        last == tr[Len(tr)]
    IN  (input.prog = SPFS_ENTER /\ procs["parent"].pc = "exited" /\ Len(tr) > 0) =>
           (last.ret # 0 =>
               /\ procs["parent"].exit # 0
               /\ (/\ last.step = "mount_env"
                   /\ procs["child"].pc = "exited"
                   /\ procs["child"].signal = 0
                   /\ \E k \in 1..Len(execs) : execs[k].what = "mount" /\ execs[k].ok)
                  => procs["parent"].exit = procs["child"].exit)

\* C4 (as claimed): whenever become_original_user has run (so become_root returned
\* success before it), it returned success and left the real and effective uid of
\* its process at the values the process started with; and the saved ids, once
\* written, are the starting real and effective uid.
C4_PrivilegeRoundTrip ==
    input.prog = SPFS_ENTER =>
        /\ \A k \in 1..Len(trace) :
              trace[k].step = "become_original_user" =>
                 /\ trace[k].ret = 0
                 /\ procs[trace[k].who].ruid = input.id.ruid
                 /\ procs[trace[k].who].euid = input.id.euid
        /\ original_uid \in {UNSET_UID, input.id.ruid}
        /\ original_euid \in {UNSET_UID, input.id.euid}

C5_Listed ==
    <<"become_root", "enter_mount_namespace", "privatize_existing_mounts",
      "ensure_mount_targets_exist", "setup_runtime", "mount_env", "mask_files",
      "mount_shots_if_necessary", "become_original_user", "drop_all_capabilities",
      "run_command">>

IsPrefix(a, b) == Len(a) <= Len(b) /\ a = SubSeq(b, 1, Len(a))

\* C5: in Enter mode of spfs-enter the listed steps, as the process runs them, always
\* form a prefix of the listed order (none out of order, none twice); once the target
\* command has been exec'ed (every step succeeded) all eleven have run, become_root
\* was the first step and run_command the last.
C5_EnterOrder ==
    (input.prog = SPFS_ENTER /\ ~SPFS_REMOUNT_ONLY) =>
        LET names == StepNames(TraceOf("parent"))
            listed == SelectSeq(names, LAMBDA n : n \in Range(C5_Listed))
        IN  /\ IsPrefix(listed, C5_Listed)
            /\ procs["parent"].pc = "execd" =>
                  /\ listed = C5_Listed
                  /\ names[1] = "become_root"
                  /\ names[Len(names)] = "run_command"

\* C5 witness: spfs-enter in Enter mode has exec'ed the target command.
C5_Witness ==
    /\ input.prog = SPFS_ENTER
    /\ ~SPFS_REMOUNT_ONLY
    /\ procs["parent"].pc = "execd"
    /\ Len(TraceOf("parent")) = Len(enter_steps)

\* the remount run of the process has gone through its whole list with success
RemountFullSuccess ==
    LET tr == TraceOf("parent")
    IN  /\ input.prog = SPFS_ENTER
        /\ SPFS_REMOUNT_ONLY
        /\ Len(tr) > 0
        /\ tr[Len(tr)] = [who |-> "parent", step |-> "drop_all_capabilities", ret |-> 0]

\* C6: in Remount mode no process ever runs enter_mount_namespace or run_command, no
\* new mount namespace is entered and no target command is exec'ed; when the run got
\* through drop_all_capabilities with success it has ended with exit status 0 and
\* the real and effective uid the process started with.
C6_RemountNoNamespaceNoExec ==
    (input.prog = SPFS_ENTER /\ SPFS_REMOUNT_ONLY) =>
        /\ \A k \in 1..Len(trace) :
              trace[k].step \notin {"enter_mount_namespace", "run_command"}
        /\ ~newns
        /\ \A k \in 1..Len(execs) : execs[k].what # "command"
        /\ RemountFullSuccess =>
              /\ procs["parent"].pc = "exited"
              /\ procs["parent"].exit = 0
              /\ procs["parent"].ruid = input.id.ruid
              /\ procs["parent"].euid = input.id.euid

\* C6 witness: a remount by an ordinary user went through its whole list.
C6_Witness ==
    /\ RemountFullSuccess
    /\ input.id = FileCaps
    /\ StepNames(TraceOf("parent")) = remount_steps

RemountOfUnmounted ==
    /\ input.prog = SPFS_ENTER
    /\ SPFS_REMOUNT_ONLY
    /\ SPFS_DIR(SPFS_ENTER) \notin input.mounted0

\* C7: a remount while /spfs is not a mount point runs become_root and, when that
\* returned success, ensure_mounts_already_exist as the second step, which fails; no
\* other step ever runs and no child is forked, so the ids and capabilities stay as
\* become_root left them (uid 0), nothing is mounted or unmounted, and the process
\* exits nonzero.
C7_RemountOfUnmountedFails ==
    RemountOfUnmounted =>
        /\ \A k \in 1..Len(trace) :
              /\ trace[k].who = "parent"
              /\ trace[k].step \in {"become_root", "ensure_mounts_already_exist"}
              /\ trace[k].step = "ensure_mounts_already_exist" =>
                    /\ k = 2
                    /\ trace[1] = [who |-> "parent", step |-> "become_root", ret |-> 0]
                    /\ trace[k].ret # 0
                    /\ procs["parent"].ruid = ROOT
                    /\ procs["parent"].euid = ROOT
                    /\ procs["parent"].capP
        /\ procs["child"].pc = "none"
        /\ mountLog = <<>>
        /\ mounted = input.mounted0
        /\ procs["parent"].pc = "exited" =>
              /\ procs["parent"].exit # 0
              /\ (Len(trace) >= 1 /\ trace[1].ret = 0) =>
                    (Len(trace) = 2 /\ trace[2].step = "ensure_mounts_already_exist")

\* C7 witness: the remount of an unmounted /spfs has stopped at its second step.
C7_Witness ==
    /\ RemountOfUnmounted
    /\ procs["parent"].pc = "exited"
    /\ Len(trace) = 2
    /\ trace[2].step = "ensure_mounts_already_exist"

\* the step at which process w stopped lies between a successful become_root and
\* become_original_user
FailedWhilePrivileged(w) ==
    LET tr == TraceOf(w)
    IN  /\ StepLoopProgram
        /\ procs[w].pc = "exited"
        /\ Len(tr) > 0
        /\ tr[Len(tr)].ret # 0
        /\ tr[Len(tr)].step \notin {"become_root", "become_original_user",
                                    "drop_all_capabilities", "run_command"}
        /\ [who |-> "parent", step |-> "become_root", ret |-> 0] \in Range(trace)
        /\ ~Ran(w, "become_original_user")

\* the target of the k-th logged mount has not been unmounted by a later entry
StillMounted(k) ==
    \A j \in (k + 1)..Len(mountLog) :
        ~(mountLog[j].op = "umount" /\ mountLog[j].target = mountLog[k].target)

\* C8: a process whose step failed after a successful become_root and before
\* become_original_user has terminated with real and effective uid 0 and with its
\* capabilities, has run neither become_original_user nor drop_all_capabilities, and
\* what the earlier steps did is still there: the namespace entered, every mount
\* made (unless a later step unmounted it), the directories ensured.
C8_NoRollback ==
    \A w \in {"parent", "child"} :
        FailedWhilePrivileged(w) =>
           /\ procs[w].ruid = ROOT /\ procs[w].euid = ROOT
           /\ procs[w].capP /\ procs[w].capE
           /\ ~Ran(w, "become_original_user")
           /\ ~Ran(w, "drop_all_capabilities")
           /\ [who |-> "parent", step |-> "enter_mount_namespace", ret |-> 0] \in Range(trace)
                 => newns
           /\ \A k \in 1..Len(mountLog) :
                 (mountLog[k].op # "umount" /\ StillMounted(k)) => mountLog[k].target \in mounted
           /\ [who |-> "parent", step |-> "ensure_mount_targets_exist", ret |-> 0]
                 \in Range(trace)
                 => dirs[SPFS_DIR(input.prog)].exists /\ dirs[RUNTIME_DIR(input.prog)].exists
           /\ [who |-> "parent", step |-> "setup_runtime", ret |-> 0] \in Range(trace)
                 => dirs[RUNTIME_LOWER_DIR(input.prog)].exists

\* C8 witness: an ordinary user's run stopped at mask_files, after the namespace was
\* entered and the overlay mounted.
C8_Witness ==
    /\ FailedWhilePrivileged("parent")
    /\ input.id = FileCaps
    /\ TraceOf("parent")[Len(TraceOf("parent"))].step = "mask_files"
    /\ newns
    /\ SPFS_DIR(input.prog) \in mounted

\* the pieces of s before its first "," piece
RECURSIVE FirstClause(_)
FirstClause(s) ==
    IF s = <<>> \/ Head(s) = "," THEN <<>> ELSE <<Head(s)>> \o FirstClause(Tail(s))

\* the -o argument of the k-th exec, when that exec is of the mount command
MountOptions(k) == execs[k].argv[5]

\* C9: the lowerdir clause handed to the mount command by spfs-enter is "lowerdir="
\* followed by the placeholder directory and then the -d layers in the order given,
\* with one ':' between neighbours; without -d it is the placeholder alone and does
\* not end in ':'.
C9_LowerdirClause ==
    input.prog = SPFS_ENTER =>
        \A k \in 1..Len(execs) :
            execs[k].what = "mount" =>
               LET clause == FirstClause(MountOptions(k))
               IN  /\ clause = <<"lowerdir=">>
                                  \o JoinColon(<<RUNTIME_LOWER_DIR(SPFS_ENTER)>> \o input.argv.d)
                   /\ input.argv.d = <<>> =>
                         clause = <<"lowerdir=", RUNTIME_LOWER_DIR(SPFS_ENTER)>>
                   /\ clause[Len(clause)] # ":"

\* C9 witness: the mount command was run with two different layers, given in the
\* order /b then /a.
C9_Witness ==
    /\ input.prog = SPFS_ENTER
    /\ input.argv.d = <<"/b", "/a">>
    /\ \E k \in 1..Len(execs) : execs[k].what = "mount" /\ execs[k].ok

HasPiece(s, piece) == \E k \in 1..Len(s) : s[k] = piece
PieceAfter(s, piece, k0) == \E k \in (k0 + 1)..Len(s) : s[k] = piece

\* C10: the options handed to the mount command contain upperdir= and workdir=
\* exactly when the mount is editable (spfs-enter: -e given; spenv-enter: always), and
\* then both stand after the whole lowerdir clause.
C10_EditableClauses ==
    StepLoopProgram =>
        \A k \in 1..Len(execs) :
            execs[k].what = "mount" =>
               LET o == MountOptions(k)
                   editable == IF input.prog = SPFS_ENTER THEN input.argv.e ELSE TRUE
                   n == Len(FirstClause(o))
               IN  /\ HasPiece(o, "upperdir=") <=> editable
                   /\ HasPiece(o, "workdir=") <=> editable
                   /\ editable => PieceAfter(o, "upperdir=", n) /\ PieceAfter(o, "workdir=", n)
                   /\ o[1] = "lowerdir="
                   /\ ~editable => n = Len(o)

\* C10 witness: spfs-enter ran the mount command with -e and layers.
C10_Witness ==
    /\ input.prog = SPFS_ENTER
    /\ input.argv.e
    /\ input.argv.d # <<>>
    /\ \E k \in 1..Len(execs) : execs[k].what = "mount" /\ execs[k].ok

\* the paths the programs hand to is_mounted
ProbeTargets == {"tmp", SHOTS_DIR, SPFS_DIR(input.prog)}

\* C11: is_mounted has three outcomes: -1 exactly when the stat of the parent or of
\* the path failed (never 0 or 1 then), otherwise 1 exactly when the device id of the
\* path differs from that of its parent, otherwise 0.
C11_IsMountedOutcomes ==
    \A target \in ProbeTargets :
        LET st_parent == stat(dirname(target), dirs, mounted, input.statfail = "parent")
            st_target == stat(target, dirs, mounted, input.statfail = "target")
            r == is_mounted(target, dirs, mounted)
        IN  /\ r \in {-1, 0, 1}
            /\ (st_parent.ret = -1 \/ st_target.ret = -1) <=> r = -1
            /\ (st_parent.ret = 0 /\ st_target.ret = 0) =>
                  (r = 1 <=> st_target.st_dev # st_parent.st_dev)

\* C11 witness: spenv-remount probed /env, a mount point, while the stat of /env
\* failed, and stopped there.
C11_Witness ==
    /\ input.prog = SPENV_REMOUNT
    /\ input.statfail = "target"
    /\ SPFS_DIR(SPENV_REMOUNT) \in mounted
    /\ dirs[SPFS_DIR(SPENV_REMOUNT)].exists
    /\ trace = <<[who |-> "parent", step |-> "is_mounted", ret |-> 1]>>

\* the command line is one of the usage errors: spfs-enter without a command and
\* without -r, or with a command and -r; spenv-enter with fewer than 3 arguments
UsageError ==
    \/ /\ input.prog = SPFS_ENTER
       /\ (~input.argv.cmd /\ ~input.argv.r) \/ (input.argv.cmd /\ input.argv.r)
    \/ /\ input.prog = SPENV_ENTER
       /\ input.argv.argc < 3

\* C12: on a usage error no pipeline step ever runs (spenv-enter runs only the
\* step_fail that parse_args selected): the uids and capabilities, the namespace, the
\* directories and the mounts stay as at the start, nothing is forked or exec'ed, and
\* the process, once it has left main, has exited with a nonzero status.
C12_UsageErrorNoExecution ==
    UsageError =>
        /\ \A k \in 1..Len(trace) :
              trace[k] = [who |-> "parent", step |-> "parse_args", ret |-> 1]
        /\ procs["child"].pc = "none"
        /\ execs = <<>>
        /\ mountLog = <<>>
        /\ ~newns
        /\ private = {}
        /\ mounted = input.mounted0
        /\ dirs = InitialDirs(input.prog, input.kind, input.id, input.cwd)
        /\ original_uid = UNSET_UID /\ original_euid = UNSET_UID
        /\ procs["parent"].ruid = input.id.ruid /\ procs["parent"].euid = input.id.euid
        /\ procs["parent"].capP = input.id.capP /\ procs["parent"].capE = input.id.capE
        /\ \/ procs["parent"] = StartProc(input)
           \/ procs["parent"].pc = "exited" /\ procs["parent"].exit # 0

\* C12 witness: spfs-enter -r with a command has returned from main.
C12_Witness ==
    /\ input.prog = SPFS_ENTER
    /\ input.argv.cmd /\ input.argv.r
    /\ input.argv.bad = ""
    /\ procs["parent"].pc = "exited"
    /\ procs["parent"].exit = 1

\* the directory is there with mode 0777
Permissive(path) == dirs[path].exists /\ dirs[path].mode = S_IRWXUGO

\* C13 (as claimed): no step reports failure when all of its own operations
\* succeeded. For the step at which a run stopped: become_root did not leave the
\* process with real and effective uid 0; ensure_mounts_do_not_exist found the target
\* mounted or the probe failed; ensure_mount_targets_exist (directories absent at the
\* start, umask 022) did not leave both targets at mode 0777; setup_runtime with the
\* tmpfs mounted (umask 022) did not leave lower, upper and work at mode 0777.
C13_NoSpuriousFailure ==
    (StepLoopProgram /\ Len(trace) > 0 /\ trace[Len(trace)].ret # 0) =>
        LET last == trace[Len(trace)]
            p == procs[last.who]
            prog == input.prog
        IN  /\ last.step = "become_root" => ~(p.ruid = ROOT /\ p.euid = ROOT)
            /\ last.step = "ensure_mounts_do_not_exist" =>
                  is_mounted(SPFS_DIR(prog), dirs, mounted) # 0
            /\ (last.step = "ensure_mount_targets_exist"
                    /\ input.kind = "absent" /\ input.umask = 18) =>
                  ~(Permissive(SPFS_DIR(prog)) /\ Permissive(RUNTIME_DIR(prog)))
            /\ (last.step = "setup_runtime" /\ RUNTIME_DIR(prog) \in mounted
                    /\ input.umask = 18) =>
                  ~(/\ Permissive(RUNTIME_LOWER_DIR(prog))
                    /\ Permissive(RUNTIME_UPPER_DIR(prog))
                    /\ Permissive(RUNTIME_WORK_DIR(prog)))

\* the directories the programs ensure
MkdirTargets ==
    {SPFS_DIR(input.prog), RUNTIME_DIR(input.prog), RUNTIME_LOWER_DIR(input.prog),
     RUNTIME_UPPER_DIR(input.prog), RUNTIME_WORK_DIR(input.prog)}

\* C14: mkdir_permissive is idempotent: for every process, directory and filesystem
\* state, when a call succeeds a second call on the same path succeeds too and leaves
\* the permission bits (and everything else) as the first call left them, whether the
\* directory existed before the first call or not.
C14_MkdirPermissiveIdempotent ==
    \A w \in {"parent", "child"}, path \in MkdirTargets :
        procs[w].pc # "none" =>
            LET first == mkdir_permissive(input.prog, procs[w], path, dirs, "none")
                second == mkdir_permissive(input.prog, procs[w], path, first.dirs, "none")
            IN  first.ret = 0 =>
                   /\ second.ret = 0
                   /\ second.dirs[path].mode = first.dirs[path].mode
                   /\ second.dirs = first.dirs

\* C14 witness: spfs-enter, made root by become_root, is at the step that ensures
\* /spfs, which does not exist yet, and the call succeeds.
C14_Witness ==
    /\ input.prog = SPFS_ENTER
    /\ AtStep("ensure_mount_targets_exist")
    /\ ~dirs[SPFS_DIR(SPFS_ENTER)].exists
    /\ mkdir_permissive(SPFS_ENTER, Me, SPFS_DIR(SPFS_ENTER), dirs, "none").ret = 0

\* C15 (as claimed): whenever mkdir_permissive (create_mount_target in spenv-mount)
\* returns success, the directory exists with mode 0777, for every umask, for a
\* directory it created and for one that existed with another mode. Stated right
\* after the step that made the calls returned success: ensure_mount_targets_exist
\* (mount target and runtime root), setup_runtime (lower, and upper and work when
\* editable), and the create_mount_target / is_mounted part of spenv-mount.
C15_SuccessMeansPermissive ==
    (Len(trace) > 0 /\ trace[Len(trace)].ret = 0) =>
        LET last == trace[Len(trace)]
            prog == input.prog
        IN  /\ last.step = "ensure_mount_targets_exist" =>
                  Permissive(SPFS_DIR(prog)) /\ Permissive(RUNTIME_DIR(prog))
            /\ last.step = "setup_runtime" =>
                  /\ Permissive(RUNTIME_LOWER_DIR(prog))
                  /\ SPFS_EDITABLE =>
                        Permissive(RUNTIME_UPPER_DIR(prog)) /\ Permissive(RUNTIME_WORK_DIR(prog))
            /\ (prog = SPENV_MOUNT /\ last.step = "is_mounted") =>
                  Permissive(SPFS_DIR(prog))

\* C16 (as claimed): a process whose exec of the target command failed has exited
\* with a nonzero status, with the invoking user's real and effective uid and with
\* empty capability sets.
C16_FailedExecExitsNonzero ==
    \A k \in 1..Len(execs) :
        (execs[k].what = "command" /\ ~execs[k].ok) =>
            LET p == procs[execs[k].who]
            IN  /\ p.pc = "exited"
                /\ p.exit # 0
                /\ p.ruid = input.id.ruid
                /\ p.euid \in {input.id.ruid, input.id.euid}
                /\ ~p.capP /\ ~p.capE

\* the exec attempts of the target command
CommandExecs == {k \in 1..Len(execs) : execs[k].what = "command"}

\* C17 (as claimed): the child forked for the mount command returns from no step
\* other than by exec'ing or ending inside mount_env, runs no later step and never
\* exec's the target command, also when its exec of /usr/bin/mount fails; the target
\* command is exec'ed at most once per invocation.
C17_SingleControlFlow ==
    /\ \A k \in 1..Len(trace) : trace[k].who # "child"
    /\ \A k \in CommandExecs : execs[k].who # "child"
    /\ Cardinality(CommandExecs) <= 1

\* the entries the parent logged for its return from the mount step
MountStepEntries ==
    {k \in 1..Len(trace) :
        /\ trace[k].who = "parent"
        /\ trace[k].step = (IF input.prog = SPENV_MOUNT THEN "mount" ELSE "mount_env")
        /\ procs["child"].pc # "none"}

\* C18 (as claimed): the parent returns from the mount step, and starts the step after
\* it, only when the mount child has terminated, and the result of the step is 0
\* exactly when the child exited with code 0, also when waitpid itself fails.
C18_MountEnvSynchronous ==
    \A k \in MountStepEntries :
        /\ Terminated(procs["child"])
        /\ procs["child"].pc = "exited" =>
              (trace[k].ret = 0 <=>
                  (procs["child"].signal = 0 /\ procs["child"].exit = 0))

\* the probe of target, in the current filesystem, yields the error value
ProbeError(target) == is_mounted(target, dirs, mounted) = -1

\* C19 (as claimed): a step in which is_mounted returned the error value has failed
\* and has not performed the mount the probe guards: privatize_existing_mounts of
\* spfs-enter for /tmp and /shots, ensure_mounts_already_exist,
\* ensure_mounts_do_not_exist, spenv-mount and spenv-remount; and a successful
\* privatize_existing_mounts has made /tmp private exactly when /tmp is a mount point.
\* Stated for the step the run has just finished.
C19_ProbeErrorIsFatal ==
    Len(trace) > 0 =>
        LET last == trace[Len(trace)]
            prog == input.prog
        IN  /\ (prog = SPFS_ENTER /\ last.step = "privatize_existing_mounts") =>
                  /\ ProbeError("tmp") => (last.ret # 0 /\ "/tmp" \notin private)
                  /\ (SPFS_VIRTUALIZE_SHOTS /\ ProbeError(SHOTS_DIR)) =>
                        (last.ret # 0 /\ SHOTS_DIR \notin private)
                  /\ last.ret = 0 => ("/tmp" \in private <=> "/tmp" \in mounted)
            /\ (last.step \in {"ensure_mounts_already_exist", "ensure_mounts_do_not_exist"}
                    /\ ProbeError(SPFS_DIR(prog))) =>
                  last.ret # 0
            /\ (prog = SPENV_MOUNT /\ last.step = "is_mounted" /\ ProbeError(SPFS_DIR(prog))) =>
                  (last.ret # 0 /\ execs = <<>>)
            /\ (prog = SPENV_REMOUNT /\ input.argv.argc = 2 /\ ProbeError(SPFS_DIR(prog))) =>
                  (last.step = "is_mounted" /\ last.ret # 0 /\ mountLog = <<>>)

\* the step the run takes now is setup_runtime of spfs-enter
SetupRuntimeTaken ==
    /\ input.prog = SPFS_ENTER
    /\ Len(trace') = Len(trace) + 1
    /\ trace'[Len(trace')].step = "setup_runtime"

\* the directory is there with mode 0777 once the step is over
PermissiveAfter(path) == dirs'[path].exists /\ dirs'[path].mode = S_IRWXUGO

\* C20: setup_runtime of spfs-enter. Editable: either the tmpfs mount failed, and then
\* the step failed and no directory was touched; or the tmpfs is the one mount the
\* step made, the runtime root is a mount point, every directory that exists below
\* it was made after the mount, upper was made only after lower was complete and work
\* only after upper was, and a step that returned 0 left all three with mode 0777.
\* Not editable: nothing is mounted, upper and work are left as they were, and a
\* step that returned 0 left lower with mode 0777.
C20_SetupRuntimeOrder ==
    [][SetupRuntimeTaken =>
          LET prog == input.prog
              ret == trace'[Len(trace')].ret
              root == RUNTIME_DIR(prog)
              lower == RUNTIME_LOWER_DIR(prog)
              upper == RUNTIME_UPPER_DIR(prog)
              work == RUNTIME_WORK_DIR(prog)
          IN  IF SPFS_EDITABLE
              THEN \/ /\ mountLog' = mountLog
                      /\ mounted' = mounted
                      /\ dirs' = dirs
                      /\ ret # 0
                   \/ /\ mountLog' = Append(mountLog, TmpfsEntry(root))
                      /\ root \in mounted'
                      /\ dirs'[root] = MountTmpfs(root, dirs)[root]
                      /\ dirs'[upper].exists => PermissiveAfter(lower)
                      /\ dirs'[work].exists => PermissiveAfter(upper)
                      /\ ret = 0 =>
                            /\ PermissiveAfter(lower)
                            /\ PermissiveAfter(upper)
                            /\ PermissiveAfter(work)
              ELSE /\ mountLog' = mountLog
                   /\ mounted' = mounted
                   /\ dirs'[upper] = dirs[upper]
                   /\ dirs'[work] = dirs[work]
                   /\ dirs'[root] = dirs[root]
                   /\ ret = 0 => PermissiveAfter(lower)
    ]_vars

\* an editable spfs-enter has just finished setup_runtime with 0: the tmpfs is the
\* last mount made and lower, upper and work are there inside it
C20_Witness ==
    /\ input.prog = SPFS_ENTER
    /\ SPFS_EDITABLE
    /\ Len(trace) > 0
    /\ trace[Len(trace)].step = "setup_runtime"
    /\ trace[Len(trace)].ret = 0
    /\ Len(mountLog) > 0
    /\ mountLog[Len(mountLog)] = TmpfsEntry(RUNTIME_DIR(SPFS_ENTER))
    /\ Permissive(RUNTIME_LOWER_DIR(SPFS_ENTER))
    /\ Permissive(RUNTIME_UPPER_DIR(SPFS_ENTER))
    /\ Permissive(RUNTIME_WORK_DIR(SPFS_ENTER))

\* the sites at which a buffer has been allocated so far
AllocSites == {allocs[k].site : k \in 1..Len(allocs)}

\* C21: every buffer allocated so far is at least as large as the number of its
\* bytes that are written (terminating NUL included) or read: the overlay option
\* buffers of both get_overlay_args, the joined string of repeated -d flags and the
\* blocks of the mask array; and once spfs-enter has parsed its options the mask
\* array holds exactly the paths given with -m, in the order given.
C21_BuffersFit ==
    /\ \A k \in 1..Len(allocs) : allocs[k].written <= allocs[k].size
    /\ (input.prog = SPFS_ENTER /\ procs["parent"].pc # "getopt") =>
          /\ SPFS_MASKED_PATHS = input.argv.m
          /\ Len(input.argv.d) > 1 => "main -d" \in AllocSites
          /\ Len(input.argv.m) > 0 => "main -m" \in AllocSites
    /\ (Len(mountLog) > 0 /\ mountLog[Len(mountLog)].op = "overlay"
            /\ input.prog \in {SPFS_ENTER, SPENV_ENTER}) =>
          AllocSites \cap {"lowerdir_args", "overlay_args"} # {}

\* an editable spfs-enter given two layers and two different masks has mounted the
\* overlay: the joined string, two blocks of the mask array and both option buffers
\* have been allocated
C21_Witness ==
    /\ input.prog = SPFS_ENTER
    /\ Len(input.argv.d) = 2
    /\ Len(input.argv.m) = 2
    /\ input.argv.m[1] # input.argv.m[2]
    /\ SPFS_MASKED_PATHS = input.argv.m
    /\ {"main -d", "main -m", "lowerdir_args", "editable_args"} \subseteq AllocSites
    /\ Cardinality({k \in 1..Len(allocs) : allocs[k].site = "main -m"}) = 2

\* the directories a step of spfs-enter ensures with mkdir_permissive
EnsuredBy(step) ==
    IF step = "ensure_mount_targets_exist"
    THEN {SPFS_DIR(SPFS_ENTER), RUNTIME_DIR(SPFS_ENTER)}
    ELSE IF step = "setup_runtime"
    THEN {RUNTIME_LOWER_DIR(SPFS_ENTER)}
         \cup (IF SPFS_EDITABLE
               THEN {RUNTIME_UPPER_DIR(SPFS_ENTER), RUNTIME_WORK_DIR(SPFS_ENTER)}
               ELSE {})
    ELSE {}

\* C22 (as claimed): when spfs-enter, started by an unprivileged user, has just
\* finished ensure_mount_targets_exist or setup_runtime with 0, every directory that
\* step ensures with mkdir_permissive is owned by the real uid of that user, the
\* value saved in original_uid.
C22_OwnedByInvokingUser ==
    (input.prog = SPFS_ENTER /\ Len(trace) > 0 /\ input.id.ruid # ROOT) =>
        LET last == trace[Len(trace)]
        IN  last.ret = 0 =>
                \A path \in EnsuredBy(last.step) :
                    /\ dirs[path].exists
                    /\ dirs[path].owner = original_uid
                    /\ dirs[path].owner = input.id.ruid

\* spenv-enter or spenv-mount started while /env is a mount point, or while the
\* mount status of /env cannot be determined
EnvCheckMustFail ==
    /\ input.prog \in {SPENV_ENTER, SPENV_MOUNT}
    /\ (SPFS_DIR(input.prog) \in input.mounted0 \/ input.statfail # "none")

\* the steps that raise the privileges of spenv-enter and of spenv-mount
EscalationSteps == {"become_root", "setuid_root"}

====
